---- MODULE Spec2Model ----
(***************************************************************************)
(* A model of the MCP command tools of src/Python/unreal_crew.py:          *)
(* execute_mcp_command (one command) and execute_mcp_command_batch (a      *)
(* list of commands recovered from an input of unknown shape and run in    *)
(* order against the Unreal connection), and of the endpoints of          *)
(* src/Python/ollama_mcp_bridge.py that send commands and report status:   *)
(* send_command, process_natural_language and get_status.                  *)
(*                                                                         *)
(* Python values are records [t, s, items]: t is the Python type, s the    *)
(* content of a scalar, items the elements of a container (a dict holds    *)
(* its keys and values alternating, in insertion order).  A text (a str    *)
(* that gets parsed) holds in items its tokens, lexed: punctuation,        *)
(* quoted strings, numbers and bare words.  Whitespace between tokens is   *)
(* not represented, and a quoted string's content holds no quote, bracket  *)
(* or parenthesis character, nor a brace or a backquote.                   *)
(***************************************************************************)
EXTENDS Integers, Sequences, FiniteSets, TLC

\* The longest command list the model submits to the batch tool.
MaxCmds == 2
\* The most entries message_history grows to while the bridge serves commands
MaxHistory == 8
\* The most entries it grows to while the bridge serves /api/status
MaxStatusHistory == 22
\* The latest time the clock reaches
MaxTime == 152

----------------------------------------------------------------------------
(* Python values *)

Val(t, s, items) == [t |-> t, s |-> s, items |-> items]

PyStr(s) == Val("str", s, <<>>)
PyText(toks) == Val("str", "", toks)
PyInt(s) == Val("int", s, <<>>)
PyNone == Val("none", "", <<>>)
PyTrue == Val("bool", "True", <<>>)
PyFalse == Val("bool", "False", <<>>)
PyList(items) == Val("list", "", items)
PyTuple(items) == Val("tuple", "", items)
PyDict(items) == Val("dict", "", items)
\* An object of a class json cannot encode (bytes, a set, a custom class).
PyObj(s) == Val("object", s, <<>>)

IsStr(v) == v.t = "str"
IsList(v) == v.t = "list"
IsDict(v) == v.t = "dict"

\* bool(v)
Truthy(v) ==
    CASE v.t = "str" -> v.s # "" \/ v.items # <<>>
      [] v.t = "int" -> v.s # "0"
      [] v.t = "none" -> FALSE
      [] v.t = "bool" -> v.s = "True"
      [] v.t \in {"list", "tuple", "dict"} -> v.items # <<>>
      [] OTHER -> TRUE

RECURSIVE KeyIndex(_, _, _)
KeyIndex(items, k, p) ==
    IF p > Len(items) THEN 0
    ELSE IF items[p] = k THEN p
    ELSE KeyIndex(items, k, p + 2)

\* k in d, d[k], d.get(k, dflt) and d[k] = v for a dict d and a str key k
DictHas(d, k) == KeyIndex(d.items, PyStr(k), 1) # 0
DictGet(d, k) == d.items[KeyIndex(d.items, PyStr(k), 1) + 1]
DictGetDefault(d, k, dflt) == IF DictHas(d, k) THEN DictGet(d, k) ELSE dflt
DictSetItem(d, kv, v) ==
    LET p == KeyIndex(d.items, kv, 1) IN
    IF p = 0 THEN PyDict(d.items \o <<kv, v>>)
    ELSE PyDict([d.items EXCEPT ![p + 1] = v])
DictValues(d) == [n \in 1..(Len(d.items) \div 2) |-> d.items[2 * n]]

\* dict(k1=v1, ...) with str keys, from the pairs <<k, v>>
RECURSIVE MkItems(_)
MkItems(pairs) ==
    IF pairs = <<>> THEN <<>>
    ELSE <<PyStr(pairs[1][1]), pairs[1][2]>> \o MkItems(Tail(pairs))
Dict(pairs) == PyDict(MkItems(pairs))

----------------------------------------------------------------------------
(* Texts and the json module *)

Tok(t, s) == Val(t, s, <<>>)
P(s) == Tok("p", s)
Word(s) == Tok("id", s)

IsBlank(v) == v.items = <<>> /\ v.s \in {"", " "}

\* The tokens of a str: a str built from a plain name lexes as one bare word.
Lex(v) ==
    IF v.items # <<>> THEN v.items
    ELSE IF IsBlank(v) THEN <<>>
    ELSE <<Word(v.s)>>

\* A dict key as json.dumps writes it: str as is, int, bool and None coerced.
JsonKey(k) ==
    CASE k.t = "str" -> Val("dq", k.s, k.items)
      [] k.t = "int" -> Val("dq", k.s, <<>>)
      [] k.t = "bool" -> Val("dq", IF k.s = "True" THEN "true" ELSE "false", <<>>)
      [] OTHER -> Val("dq", "null", <<>>)

RECURSIVE JsonSerializable(_)
JsonSerializable(v) ==
    CASE v.t \in {"str", "int", "none", "bool"} -> TRUE
      [] v.t \in {"list", "tuple"} ->
            \A n \in 1..Len(v.items) : JsonSerializable(v.items[n])
      [] v.t = "dict" ->
            \A n \in 1..Len(v.items) :
                IF n % 2 = 1
                THEN v.items[n].t \in {"str", "int", "bool", "none"}
                ELSE JsonSerializable(v.items[n])
      [] OTHER -> FALSE

RECURSIVE JsonTokens(_), JsonJoin(_, _)
\* json.dumps(v), for a serializable v
JsonTokens(v) ==
    CASE v.t = "str" -> <<Val("dq", v.s, v.items)>>
      [] v.t = "int" -> <<Tok("num", v.s)>>
      [] v.t = "none" -> <<Word("null")>>
      [] v.t = "bool" -> <<Word(IF v.s = "True" THEN "true" ELSE "false")>>
      [] v.t \in {"list", "tuple"} ->
            <<P("[")>> \o JsonJoin(v.items, FALSE) \o <<P("]")>>
      [] v.t = "dict" ->
            <<P("{")>> \o JsonJoin(v.items, TRUE) \o <<P("}")>>
      [] OTHER -> <<Word("TypeError")>>
JsonJoin(items, pairs) ==
    IF items = <<>> THEN <<>>
    ELSE IF pairs
    THEN <<JsonKey(items[1]), P(":")>> \o JsonTokens(items[2])
         \o (IF Len(items) > 2 THEN <<P(",")>> ELSE <<>>)
         \o JsonJoin(SubSeq(items, 3, Len(items)), TRUE)
    ELSE JsonTokens(items[1])
         \o (IF Len(items) > 1 THEN <<P(",")>> ELSE <<>>)
         \o JsonJoin(Tail(items), FALSE)

JsonDumps(v) == PyText(JsonTokens(v))

ParseFail == [ok |-> FALSE, v |-> PyNone, p |-> 0]
Parsed(v, p) == [ok |-> TRUE, v |-> v, p |-> p]

RECURSIVE JsonValue(_, _), JsonArray(_, _, _), JsonObject(_, _, _)
\* The JSON value that starts at token p: [ok, v, p], p the position after it.
JsonValue(toks, p) ==
    IF p > Len(toks) THEN ParseFail
    ELSE LET tk == toks[p] IN
         CASE tk.t = "dq" -> Parsed(Val("str", tk.s, tk.items), p + 1)
           [] tk.t = "num" -> Parsed(PyInt(tk.s), p + 1)
           [] tk = Word("null") -> Parsed(PyNone, p + 1)
           [] tk = Word("true") -> Parsed(PyTrue, p + 1)
           [] tk = Word("false") -> Parsed(PyFalse, p + 1)
           [] tk = P("[") ->
                IF p < Len(toks) /\ toks[p + 1] = P("]")
                THEN Parsed(PyList(<<>>), p + 2)
                ELSE JsonArray(toks, p + 1, <<>>)
           [] tk = P("{") ->
                IF p < Len(toks) /\ toks[p + 1] = P("}")
                THEN Parsed(PyDict(<<>>), p + 2)
                ELSE JsonObject(toks, p + 1, PyDict(<<>>))
           [] OTHER -> ParseFail
JsonArray(toks, p, acc) ==
    LET r == JsonValue(toks, p) IN
    IF ~r.ok \/ r.p > Len(toks) THEN ParseFail
    ELSE IF toks[r.p] = P(",") THEN JsonArray(toks, r.p + 1, Append(acc, r.v))
    ELSE IF toks[r.p] = P("]") THEN Parsed(PyList(Append(acc, r.v)), r.p + 1)
    ELSE ParseFail
JsonObject(toks, p, acc) ==
    IF p + 1 > Len(toks) \/ toks[p].t # "dq" \/ toks[p + 1] # P(":") THEN ParseFail
    ELSE LET r == JsonValue(toks, p + 2)
             d == DictSetItem(acc, Val("str", toks[p].s, toks[p].items), r.v)
         IN  IF ~r.ok \/ r.p > Len(toks) THEN ParseFail
             ELSE IF toks[r.p] = P(",") THEN JsonObject(toks, r.p + 1, d)
             ELSE IF toks[r.p] = P("}") THEN Parsed(d, r.p + 1)
             ELSE ParseFail

\* A parse succeeds when the value found ends where the text ends.
WholeText(r, toks) ==
    IF r.ok /\ r.p = Len(toks) + 1 THEN [ok |-> TRUE, v |-> r.v]
    ELSE [ok |-> FALSE, v |-> PyNone]

\* json.loads(text): ok is FALSE where it raises JSONDecodeError
JsonLoads(text) == WholeText(JsonValue(Lex(text), 1), Lex(text))

----------------------------------------------------------------------------
(* ast.literal_eval *)

RECURSIVE PyValue(_, _), PyItems(_, _, _, _), PyDictItems(_, _, _)
\* The Python literal that starts at token p: [ok, v, p].  A bare word other
\* than None, True and False is a Name node and a word followed by "(" is a
\* Call node: literal_eval raises ValueError on both.
PyValue(toks, p) ==
    IF p > Len(toks) THEN ParseFail
    ELSE LET tk == toks[p] IN
         CASE tk.t \in {"dq", "sq"} -> Parsed(Val("str", tk.s, tk.items), p + 1)
           [] tk.t = "num" -> Parsed(PyInt(tk.s), p + 1)
           [] tk = Word("None") -> Parsed(PyNone, p + 1)
           [] tk = Word("True") -> Parsed(PyTrue, p + 1)
           [] tk = Word("False") -> Parsed(PyFalse, p + 1)
           [] tk = P("[") -> PyItems(toks, p + 1, "]", <<>>)
           [] tk = P("(") ->
                LET r == PyItems(toks, p + 1, ")", <<>>) IN
                IF ~r.ok THEN ParseFail
                ELSE IF Len(r.v.items) = 1 /\ toks[r.p - 2] # P(",")
                THEN Parsed(r.v.items[1], r.p)
                ELSE Parsed(PyTuple(r.v.items), r.p)
           [] tk = P("{") ->
                IF p < Len(toks) /\ toks[p + 1] = P("}")
                THEN Parsed(PyDict(<<>>), p + 2)
                ELSE PyDictItems(toks, p + 1, PyDict(<<>>))
           [] OTHER -> ParseFail
PyItems(toks, p, close, acc) ==
    IF p > Len(toks) THEN ParseFail
    ELSE IF toks[p] = P(close) THEN Parsed(PyList(acc), p + 1)
    ELSE LET r == PyValue(toks, p) IN
         IF ~r.ok \/ r.p > Len(toks) THEN ParseFail
         ELSE IF toks[r.p] = P(",") THEN PyItems(toks, r.p + 1, close, Append(acc, r.v))
         ELSE IF toks[r.p] = P(close) THEN Parsed(PyList(Append(acc, r.v)), r.p + 1)
         ELSE ParseFail
PyDictItems(toks, p, acc) ==
    IF p > Len(toks) THEN ParseFail
    ELSE IF toks[p] = P("}") THEN Parsed(acc, p + 1)
    ELSE LET k == PyValue(toks, p) IN
         IF ~k.ok \/ k.p > Len(toks) \/ k.v.t \in {"list", "dict"} THEN ParseFail
         ELSE IF toks[k.p] # P(":") THEN ParseFail
         ELSE LET r == PyValue(toks, k.p + 1) IN
              IF ~r.ok \/ r.p > Len(toks) THEN ParseFail
              ELSE IF toks[r.p] = P(",")
              THEN PyDictItems(toks, r.p + 1, DictSetItem(acc, k.v, r.v))
              ELSE IF toks[r.p] = P("}")
              THEN Parsed(DictSetItem(acc, k.v, r.v), r.p + 1)
              ELSE ParseFail

\* ast.literal_eval(text): ok is FALSE where it raises ValueError or SyntaxError
LiteralEval(text) == WholeText(PyValue(Lex(text), 1), Lex(text))

----------------------------------------------------------------------------
(* execute_mcp_command: the steps before and after the remote call *)

\* What a step hands back: a value returned to the caller, an exception
\* propagated to it, or the parameters to go on with.
Return(v) == [kind |-> "return", v |-> v]
Raise(exc) == [kind |-> "raise", v |-> PyStr(exc)]
Go(v) == [kind |-> "go", v |-> v]

ErrorEnvelope(msg) == Dict(<< <<"status", PyStr("error")>>, <<"error", PyStr(msg)>> >>)

\* DecodedParams taking a text json cannot decode for the empty mapping
DecodedParams_Lenient(r) == IF r.ok THEN Go(r.v) ELSE Go(PyDict(<<>>))

\* The decoded params_json, or the envelope for a text json cannot decode:
\* lines 88 and 97-100
DecodedParams(r) ==
    IF r.ok THEN Go(r.v)
    ELSE Return(JsonDumps(ErrorEnvelope(
             "Error al parsear parametros JSON string: <JSONDecodeError> - Input: <params_json>")))

\* params_json to params: lines 83-102
ParseParams(params_json) ==
    IF ~Truthy(params_json) THEN Go(PyDict(<<>>))
    ELSE IF IsStr(params_json)
    THEN IF IsBlank(params_json) THEN Go(PyDict(<<>>))
         ELSE DecodedParams(JsonLoads(params_json))
    ELSE IF IsDict(params_json) THEN Go(params_json)
    ELSE Return(JsonDumps(ErrorEnvelope(
             "Formato de parametros invalido: se esperaba string JSON o dict, se recibio <class '"
             \o params_json.t \o "'>")))

\* The required-parameter table, in the order the code lists it: lines 105-115
RequiredParams(command) ==
    IF command = PyStr("create_blueprint")
    THEN << <<"name", "nombre del blueprint">>,
            <<"parent_class", "clase base (ej: Actor, Pawn, Character)">> >>
    ELSE IF command = PyStr("spawn_actor")
    THEN << <<"name", "nombre unico del actor">>,
            <<"type", "tipo de actor (ej: CUBE, SPHERE)">> >>
    ELSE IF command = PyStr("add_component_to_blueprint")
    THEN << <<"blueprint_name", "nombre del blueprint">>,
            <<"component_type", "tipo de componente">>,
            <<"component_name", "nombre del componente">> >>
    ELSE <<>>

\* needle in hay, for two str: the strings of the model are whole words, and
\* the only one with a parameter name inside it is that name itself.
StrContains(hay, needle) == hay.items = <<>> /\ hay.s = needle

\* param_name in params: "ok" with the answer, or the TypeError Python raises
\* for a params that is no container.
Contains(params, param_name) ==
    CASE params.t = "dict" -> [ok |-> TRUE, v |-> DictHas(params, param_name)]
      [] params.t \in {"list", "tuple"} ->
            [ok |-> TRUE,
             v |-> \E n \in 1..Len(params.items) : params.items[n] = PyStr(param_name)]
      [] params.t = "str" -> [ok |-> TRUE, v |-> StrContains(params, param_name)]
      [] OTHER -> [ok |-> FALSE, v |-> FALSE]

\* MissingParamMessage naming no parameter
MissingParamMessage_NoName(param_name, description, command) ==
    "Parametros obligatorios no proporcionados para el comando '" \o command.s \o "'"

\* error_msg of line 120
MissingParamMessage(param_name, description, command) ==
    "Parametro obligatorio '" \o param_name \o "' (" \o description
    \o ") no proporcionado para el comando '" \o command.s \o "'"

RECURSIVE CheckRequired_PresenceOnly(_, _, _, _)
\* CheckRequired asking only that each required key be there, whatever its
\* value
CheckRequired_PresenceOnly(command, params, required, n) ==
    IF n > Len(required) THEN Go(params)
    ELSE IF ~Contains(params, required[n][1]).ok THEN Raise("TypeError")
    ELSE IF ~Contains(params, required[n][1]).v
    THEN Return(JsonDumps(ErrorEnvelope(
             MissingParamMessage(required[n][1], required[n][2], command))))
    ELSE CheckRequired_PresenceOnly(command, params, required, n + 1)

RECURSIVE CheckRequired(_, _, _, _)
\* The loop over required_params from its n-th entry: lines 118-122
CheckRequired(command, params, required, n) ==
    IF n > Len(required) THEN Go(params)
    ELSE LET param_name == required[n][1]
             has == Contains(params, param_name)
         IN  IF ~has.ok THEN Raise("TypeError")
             ELSE IF ~has.v
             THEN Return(JsonDumps(ErrorEnvelope(
                      MissingParamMessage(param_name, required[n][2], command))))
             ELSE IF ~IsDict(params) THEN Raise("TypeError")
             ELSE IF ~Truthy(DictGet(params, param_name))
             THEN Return(JsonDumps(ErrorEnvelope(
                      MissingParamMessage(param_name, required[n][2], command))))
             ELSE CheckRequired(command, params, required, n + 1)

\* ValidateParams without the check of the required parameters
ValidateParams_Skip(command, parsed) == parsed

\* The validation of the parsed parameters: lines 104-122
ValidateParams(command, parsed) ==
    IF parsed.kind # "go" THEN parsed
    ELSE CheckRequired(command, parsed.v, RequiredParams(command), 1)

\* execute_mcp_command up to the connection lookup: lines 83-122
PrepareCommand(command, params_json) ==
    ValidateParams(command, ParseParams(params_json))

\* The envelope for a lookup that returned no connection: lines 125-127
NoConnection == JsonDumps(ErrorEnvelope("No se pudo conectar con Unreal Engine"))

\* ExecError without the command and the exception's message
ExecError_Bare(command, msg) == ErrorEnvelope("Error ejecutando comando MCP")

\* The envelope of the except clause: lines 141-146
ExecError(command, msg) ==
    Dict(<< <<"status", PyStr("error")>>, <<"command", command>>,
            <<"error", PyStr("Error ejecutando comando MCP '" \o command.s \o "': " \o msg)>>,
            <<"details", PyStr("<traceback>")>> >>)

\* NormalizeResponse giving a mapping without status the status success
NormalizeResponse_DefaultStatus(response) ==
    IF response = PyNone
    THEN ErrorEnvelope("No se recibio respuesta del servidor MCP")
    ELSE IF ~IsDict(response)
    THEN Dict(<< <<"status", PyStr("unknown")>>, <<"raw_response", response>> >>)
    ELSE IF DictHas(response, "status") THEN response
    ELSE DictSetItem(response, PyStr("status"), PyStr("success"))

\* The raw response made an envelope: lines 131-136
NormalizeResponse(response) ==
    IF response = PyNone
    THEN ErrorEnvelope("No se recibio respuesta del servidor MCP")
    ELSE IF ~IsDict(response)
    THEN Dict(<< <<"status", PyStr("unknown")>>, <<"raw_response", response>> >>)
    ELSE response

\* execute_mcp_command from the return of send_command on: lines 129-150
FinishCommand(command, outcome) ==
    IF outcome.raised THEN JsonDumps(ExecError(command, outcome.v.s))
    ELSE LET response == NormalizeResponse(outcome.v) IN
         IF JsonSerializable(response) THEN JsonDumps(response)
         ELSE JsonDumps(ExecError(command,
                  "Object of type " \o outcome.v.t \o " is not JSON serializable"))

----------------------------------------------------------------------------
(* execute_mcp_command_batch: from the input to the command list *)

\* processed_commands = None
Missing == Val("missing", "", <<>>)

HasTok(toks, tk) == \E p \in 1..Len(toks) : toks[p] = tk
\* "dict(" in text
HasDictCall(toks) ==
    \E p \in 1..(Len(toks) - 1) : toks[p] = Word("dict") /\ toks[p + 1] = P("(")

RECURSIVE FirstList(_, _, _)
\* The value of the first of keys, from the n-th on, that d holds a list under.
FirstList(d, keys, n) ==
    IF n > Len(keys) THEN Missing
    ELSE IF DictHas(d, keys[n]) /\ IsList(DictGet(d, keys[n])) THEN DictGet(d, keys[n])
    ELSE FirstList(d, keys, n + 1)

\* FromParsedJson keeping, of a decoded list, only the dicts with a "command"
\* key, as the branch of lines 241-250 would
FromParsedJson_Filter(parsed_data) ==
    IF IsList(parsed_data)
    THEN PyList(SelectSeq(parsed_data.items,
                          LAMBDA item : IsDict(item) /\ DictHas(item, "command")))
    ELSE Missing

\* The decoded JSON made a command list: lines 226-263.  The branch of lines
\* 233-250 repeats the test of line 228 and is never taken.
FromParsedJson(parsed_data) ==
    IF IsList(parsed_data) THEN parsed_data
    ELSE IF IsDict(parsed_data)
    THEN LET found == FirstList(parsed_data,
                 <<"commands_list", "commands", "command_list", "input", "data">>, 1)
         IN  IF found # Missing THEN found
             ELSE IF DictHas(parsed_data, "command") THEN PyList(<<parsed_data>>)
             ELSE Missing
    ELSE Missing

\* First repair: ast.literal_eval, kept when every element is a dict with a
\* "command" key: lines 286-310
LooksLikeLiteralList(toks) ==
    \/ HasDictCall(toks) /\ HasTok(toks, P("[")) /\ HasTok(toks, P("]"))
    \/ toks # <<>> /\ toks[1] = P("[") /\ toks[Len(toks)] = P("]")
CommandDictList(r) ==
    IF /\ r.ok
       /\ IsList(r.v)
       /\ \A n \in 1..Len(r.v.items) :
              IsDict(r.v.items[n]) /\ DictHas(r.v.items[n], "command")
    THEN r.v
    ELSE Missing
LiteralCommandList(text) ==
    IF LooksLikeLiteralList(Lex(text)) THEN CommandDictList(LiteralEval(text))
    ELSE Missing

\* dict( made {, ) made } and single quotes made double: lines 316-322.  The
\* pattern of line 318 asks for a backslash after the comma and matches no
\* text of the model.
RepairedToken(toks, p) ==
    IF toks[p] = Word("dict") /\ p < Len(toks) /\ toks[p + 1] = P("(") THEN P("{")
    ELSE IF toks[p] = P("(") /\ p > 1 /\ toks[p - 1] = Word("dict") THEN Tok("gone", "")
    ELSE IF toks[p] = P(")") THEN P("}")
    ELSE IF toks[p].t = "sq" THEN Val("dq", toks[p].s, toks[p].items)
    ELSE toks[p]
RepairTokens(toks) ==
    SelectSeq([p \in 1..Len(toks) |-> RepairedToken(toks, p)],
              LAMBDA tk : tk # Tok("gone", ""))

\* Second repair: the text rewritten to JSON and decoded: lines 313-349
FromRepairedJson(r) ==
    IF ~r.ok THEN Missing
    ELSE IF IsList(r.v) THEN r.v
    ELSE IF IsDict(r.v)
    THEN FirstList(r.v, <<"commands_list", "commands", "command_list">>, 1)
    ELSE Missing
RepairedJsonList(text) ==
    IF ~HasDictCall(Lex(text)) THEN Missing
    ELSE FromRepairedJson(JsonLoads(PyText(RepairTokens(Lex(text)))))

\* AnyList keeping a tuple as well as a list
AnyList_AnySequence(r) ==
    IF r.ok /\ r.v.t \in {"list", "tuple"} THEN PyList(r.v.items) ELSE Missing

\* Last resort: ast.literal_eval, any list kept: lines 352-362
AnyList(r) == IF r.ok /\ IsList(r.v) THEN r.v ELSE Missing

\* LastResortList keeping a list only when every element is a dict with a
\* "command" key
LastResortList_CommandsOnly(text) == CommandDictList(LiteralEval(text))

LastResortList(text) == AnyList(LiteralEval(text))

\* "if processed_commands is None": the next strategy runs only then
OrElse(found, next) == IF found # Missing THEN found ELSE next

\* The three repairs in order, each tried while no list is found: lines 279-362
RepairText(text) ==
    OrElse(LiteralCommandList(text), OrElse(RepairedJsonList(text), LastResortList(text)))

InvalidFormatEnvelope ==
    Dict(<< <<"status", PyStr("error")>>,
            <<"message", PyStr("Invalid input format. Expected a list of command dictionaries, but received an unrecognized structure.")>> >>)
UnparseableEnvelope ==
    Dict(<< <<"status", PyStr("error")>>,
            <<"message", PyStr("Could not parse command list from input string, even after attempting repair/evaluation: <JSONDecodeError>")>> >>)

\* The list found, or the error envelope returned when none is: lines 266-270
\* and 368-370
FoundOr(found, envelope) ==
    IF found = Missing THEN Return(JsonDumps(envelope)) ELSE Go(found)

FromDecoded(r, text) ==
    IF r.ok THEN FoundOr(FromParsedJson(r.v), InvalidFormatEnvelope)
    ELSE FoundOr(RepairText(text), UnparseableEnvelope)

\* A str input: lines 215-376
FromText(text) == FromDecoded(JsonLoads(text), text)

\* ListValue taking a list only as JSON text
ListValue_TextOnly(value) ==
    IF IsStr(value) THEN AnyList(JsonLoads(value)) ELSE Missing

\* A value that is a list, or a str json decodes to a list: lines 384-400
\* and 411-424
ListValue(value) ==
    IF IsList(value) THEN value
    ELSE IF IsStr(value) THEN AnyList(JsonLoads(value))
    ELSE Missing

RECURSIVE FoundList_StopsAtPresentKey(_, _, _)
\* FoundList ending the search at the first key the dict has, whatever it
\* holds
FoundList_StopsAtPresentKey(d, keys, n) ==
    IF n > Len(keys) THEN Missing
    ELSE IF DictHas(d, keys[n]) THEN ListValue(DictGet(d, keys[n]))
    ELSE FoundList_StopsAtPresentKey(d, keys, n + 1)

RECURSIVE FoundList(_, _, _)
\* The loop over possible_keys from its n-th key: lines 383-400
FoundList(d, keys, n) ==
    IF n > Len(keys) THEN Missing
    ELSE IF DictHas(d, keys[n])
    THEN OrElse(ListValue(DictGet(d, keys[n])), FoundList(d, keys, n + 1))
    ELSE FoundList(d, keys, n + 1)

\* FromPlainDict putting the text a single-value dict holds through the
\* whole of the str strategy
FromPlainDict_FullText(d) ==
    IF DictHas(d, "command") /\ DictHas(d, "params") THEN Go(PyList(<<d>>))
    ELSE IF Len(d.items) = 2 /\ IsStr(d.items[2]) THEN FromText(d.items[2])
    ELSE IF Len(d.items) = 2 /\ IsList(d.items[2]) THEN Go(d.items[2])
    ELSE Return(PyStr("Error: Could not extract a valid command list from the dictionary input."))

\* A dict without a list under the known keys: lines 405-428
FromPlainDict(d) ==
    IF DictHas(d, "command") /\ DictHas(d, "params") THEN Go(PyList(<<d>>))
    ELSE IF Len(d.items) = 2 /\ ListValue(d.items[2]) # Missing
    THEN Go(ListValue(d.items[2]))
    ELSE Return(PyStr("Error: Could not extract a valid command list from the dictionary input."))

FoundListOr(found_list, d) ==
    IF found_list # Missing THEN Go(found_list) ELSE FromPlainDict(d)

\* A dict input: lines 378-428
FromDict(d) ==
    FoundListOr(FoundList(d,
        <<"commands_list", "commands", "command_list", "batch", "input", "data">>, 1), d)

EmptyListEnvelope ==
    Dict(<< <<"status", PyStr("warning")>>, <<"message", PyStr("Lista de comandos vacia")>> >>)

\* The input after the recovery of lines 185-207: the input itself, or, for
\* None, the output the frames of the callers hold (None when they hold none).
RecoverInput(input, ctx) == IF input = PyNone THEN ctx ELSE input

\* FromInput taking a missing input for the empty command list
FromInput_NoneIsEmptyList(data) ==
    IF data = PyNone THEN Go(PyList(<<>>))
    ELSE IF IsList(data) THEN Go(data)
    ELSE IF IsStr(data) THEN FromText(data)
    ELSE IF IsDict(data) THEN FromDict(data)
    ELSE Go(Missing)

\* execute_mcp_command_batch up to its loop: Go with the command list to
\* run, or Return with what the tool returns at once: lines 185-442
\* The input parsed by its type: lines 205-428
FromInput(data) ==
    IF data = PyNone THEN Return(JsonDumps(PyList(<<>>)))
    ELSE IF IsList(data) THEN Go(data)
    ELSE IF IsStr(data) THEN FromText(data)
    ELSE IF IsDict(data) THEN FromDict(data)
    ELSE Go(Missing)

\* FinalValidation without the test for an empty list
FinalValidation_NoEmptyCheck(found) ==
    IF found.kind = "return" THEN found
    ELSE IF ~IsList(found.v)
    THEN Return(PyStr("Error: the Action Input is not a valid key, value dictionary."))
    ELSE found

\* The final validation: lines 432-442
FinalValidation(found) ==
    IF found.kind = "return" THEN found
    ELSE IF ~IsList(found.v)
    THEN Return(PyStr("Error: the Action Input is not a valid key, value dictionary."))
    ELSE IF found.v.items = <<>> THEN Return(JsonDumps(EmptyListEnvelope))
    ELSE found

Extract(input, ctx) == FinalValidation(FromInput(RecoverInput(input, ctx)))

----------------------------------------------------------------------------
(* execute_mcp_command_batch: one element of the command list *)

Skip(envelope) == [kind |-> "skip", v |-> envelope, command |-> PyNone, params |-> PyNone]
Run(command, params) == [kind |-> "run", v |-> PyNone, command |-> command, params |-> params]

ItemError(n, msg) ==
    Dict(<< <<"status", PyStr("error")>>, <<"index", PyInt(ToString(n - 1))>>,
            <<"error", PyStr(msg)>> >>)

\* ItemCommand reading the parameters under the key "parameters"
ItemCommand_ReadsParameters(cmd_item, n) ==
    IF IsDict(cmd_item)
    THEN LET command == DictGetDefault(cmd_item, "command", PyNone)
             params == DictGetDefault(cmd_item, "parameters", PyDict(<<>>))
         IN  IF ~IsStr(command) \/ ~Truthy(command)
             THEN Skip(ItemError(n, "Elemento " \o ToString(n - 1)
                      \o " de la lista es un diccionario pero no tiene una clave 'command' valida o esta vacia: <cmd_item>"))
             ELSE Run(command, IF IsDict(params) THEN params ELSE PyDict(<<>>))
    ELSE IF IsStr(cmd_item) /\ Truthy(cmd_item) THEN Run(cmd_item, PyDict(<<>>))
    ELSE Skip(ItemError(n, "Elemento " \o ToString(n - 1)
             \o " de la lista tiene formato no reconocido o invalido: tipo=<class '"
             \o cmd_item.t \o "'>, valor=<cmd_item>"))

\* The n-th element made a command and its params, or the error envelope
\* that takes its place: lines 448-471
ItemCommand(cmd_item, n) ==
    IF IsDict(cmd_item)
    THEN LET command == DictGetDefault(cmd_item, "command", PyNone)
             params == DictGetDefault(cmd_item, "params", PyDict(<<>>))
         IN  IF ~IsStr(command) \/ ~Truthy(command)
             THEN Skip(ItemError(n, "Elemento " \o ToString(n - 1)
                      \o " de la lista es un diccionario pero no tiene una clave 'command' valida o esta vacia: <cmd_item>"))
             ELSE Run(command, IF IsDict(params) THEN params ELSE PyDict(<<>>))
    ELSE IF IsStr(cmd_item) /\ Truthy(cmd_item) THEN Run(cmd_item, PyDict(<<>>))
    ELSE Skip(ItemError(n, "Elemento " \o ToString(n - 1)
             \o " de la lista tiene formato no reconocido o invalido: tipo=<class '"
             \o cmd_item.t \o "'>, valor=<cmd_item>"))

\* The JSON text execute_mcp_command returned made the element's result:
\* lines 479-490
DecodedResponse(command, response_json, r) ==
    IF r.ok THEN r.v
    ELSE Dict(<< <<"status", PyStr("error")>>, <<"command", command>>,
                 <<"error", PyStr("Error al parsear la respuesta JSON del comando '"
                        \o command.s \o "': <JSONDecodeError>. Respuesta recibida: <response_json>")>>,
                 <<"raw_response", response_json>> >>)
CollectResponse(command, response_json) ==
    DecodedResponse(command, response_json, JsonLoads(response_json))

\* The result for an exception out of execute_mcp_command: lines 492-497
BatchError(command, exc) ==
    Dict(<< <<"status", PyStr("error")>>, <<"command", command>>,
            <<"error", PyStr("Error inesperado ejecutando el comando individual '"
                   \o command.s \o "' dentro del batch: " \o exc)>>,
            <<"details", PyStr("<traceback>")>> >>)

----------------------------------------------------------------------------
(* The state *)

VARIABLES
    tool,                \* the tool called: "batch" or "single"
    command,             \* execute_mcp_command's argument command
    params_json,         \* execute_mcp_command's argument params_json
    input_data,          \* execute_mcp_command_batch's argument
    context,             \* the task output the callers' frames hold, or None
    pc,                  \* "call", "loop", "remote", "done"
    processed_commands,  \* the command list of the batch
    i,                   \* the position in it of the element in hand, from 1
    results,             \* the results list of the batch
    origin,              \* for each result, the position of the element it was appended for
    cur,                 \* the send_command call in hand
    sent,                \* every send_command call made, in order
    pending,             \* the send_command calls that have not returned yet
    lookups,             \* the number of get_unreal_connection calls made
    script,              \* what the connection did at each lookup so far
    ret,                 \* what the tool returned (or raised)
    ref,                 \* the finished first call, when a second one is compared with it
    message_history,     \* the bridge's message_history
    last_status_check,   \* the bridge's last_status_check
    cached_status,       \* the bridge's cached_status
    now,                 \* what time.time() returns, in seconds
    served               \* the last request the bridge served, with its response

toolVars == <<tool, command, params_json, input_data, context, pc, processed_commands,
              i, results, origin, cur, sent, pending, lookups, script, ret, ref>>

bridgeVars == <<message_history, last_status_check, cached_status, now, served>>

vars == <<toolVars, bridgeVars>>

NotReturned == Val("pending", "", <<>>)
Raised(exc) == Val("raised", exc, <<>>)
NoCall == [idx |-> 0, command |-> PyNone, params |-> PyNone]
NoRef == [set |-> FALSE, input |-> PyNone, script |-> <<>>, sent |-> <<>>, ret |-> NotReturned]

\* The state in which a tool starts to run.
Fresh ==
    /\ pc = "call"
    /\ processed_commands = <<>>
    /\ i = 1
    /\ results = <<>>
    /\ origin = <<>>
    /\ cur = NoCall
    /\ sent = <<>>
    /\ pending = <<>>
    /\ lookups = 0
    /\ script = <<>>
    /\ ret = NotReturned

----------------------------------------------------------------------------
(* The connection: get_unreal_connection and send_command *)

\* One entry of script: the lookup found no connection, or it found one and
\* send_command returned v or raised.
NoConn == [conn |-> FALSE, raised |-> FALSE, v |-> PyNone]
Returns(v) == [conn |-> TRUE, raised |-> FALSE, v |-> v]
Raises(msg) == [conn |-> TRUE, raised |-> TRUE, v |-> PyStr(msg)]

Replies ==
    { Returns(Dict(<< <<"status", PyStr("success")>>, <<"result", PyDict(<<>>)>> >>)),
      Returns(Dict(<< <<"status", PyStr("error")>>, <<"error", PyStr("Unknown command")>> >>)),
      Returns(Dict(<< <<"actors", PyTuple(<<PyStr("Cube")>>)>> >>)),
      Returns(PyNone),
      Returns(PyStr("OK")),
      Returns(PyObj("bytes")),
      Raises("Connection lost") }

\* A second call meets the connection behaving as it did in the first.
Scripted == ref.set /\ Len(script) < Len(ref.script)
LookupChoices == IF Scripted THEN {ref.script[Len(script) + 1].conn} ELSE BOOLEAN
ReplyChoices == IF Scripted THEN {ref.script[Len(script) + 1]} ELSE Replies

----------------------------------------------------------------------------
(* execute_mcp_command_batch, step by step *)

\* The tool up to its loop: lines 185-446
Extracted(found) ==
    IF found.kind = "return"
    THEN ret' = found.v /\ pc' = "done" /\ UNCHANGED processed_commands
    ELSE processed_commands' = found.v.items /\ pc' = "loop" /\ UNCHANGED ret
BatchExtract ==
    /\ tool = "batch" /\ pc = "call"
    /\ Extracted(Extract(input_data, context))
    /\ UNCHANGED <<bridgeVars, tool, command, params_json, input_data, context, i, results, origin,
                   cur, sent, pending, lookups, script, ref>>

InLoop == tool = "batch" /\ pc = "loop" /\ i <= Len(processed_commands)
Item == ItemCommand(processed_commands[i], i)

\* Prepared handing execute_mcp_command the params of the element as they are
Prepared_RawParams ==
    PrepareCommand(Item.command,
                   IF IsDict(processed_commands[i])
                   THEN DictGetDefault(processed_commands[i], "params", PyDict(<<>>))
                   ELSE Item.params)

\* execute_mcp_command(command=command, params_json=params) up to the
\* lookup: line 477
Prepared == PrepareCommand(Item.command, Item.params)

\* results.append(envelope), and on to the next element
AppendResult(envelope) ==
    /\ results' = Append(results, envelope)
    /\ origin' = Append(origin, i)
    /\ i' = i + 1

\* BatchItemInvalid dropping the element instead of flagging it in place
BatchItemInvalid_Drop ==
    /\ InLoop /\ Item.kind = "skip"
    /\ i' = i + 1
    /\ UNCHANGED <<bridgeVars, tool, command, params_json, input_data, context, pc,
                   processed_commands, results, origin, cur, sent, pending, lookups,
                   script, ret, ref>>

\* An element that is no command: lines 453-457 and 467-471
BatchItemInvalid ==
    /\ InLoop /\ Item.kind = "skip"
    /\ AppendResult(Item.v)
    /\ UNCHANGED <<bridgeVars, tool, command, params_json, input_data, context, pc,
                   processed_commands, cur, sent, pending, lookups, script, ret, ref>>

\* BatchItemRejected going on to the next element without a result
BatchItemRejected_Drop ==
    /\ InLoop /\ Item.kind = "run" /\ Prepared.kind # "go"
    /\ i' = i + 1
    /\ UNCHANGED <<bridgeVars, tool, command, params_json, input_data, context, pc,
                   processed_commands, results, origin, cur, sent, pending, lookups,
                   script, ret, ref>>

\* A command execute_mcp_command turns down before it looks the connection
\* up: lines 477-497 over lines 83-122
BatchItemRejected ==
    /\ InLoop /\ Item.kind = "run" /\ Prepared.kind # "go"
    /\ AppendResult(IF Prepared.kind = "return"
                    THEN CollectResponse(Item.command, Prepared.v)
                    ELSE BatchError(Item.command, Prepared.v.s))
    /\ UNCHANGED <<bridgeVars, tool, command, params_json, input_data, context, pc,
                   processed_commands, cur, sent, pending, lookups, script, ret, ref>>

\* BatchItemNoConnection ending the loop at the first missing connection
BatchItemNoConnection_Abort ==
    /\ InLoop /\ Item.kind = "run" /\ Prepared.kind = "go"
    /\ FALSE \in LookupChoices
    /\ lookups' = lookups + 1
    /\ script' = Append(script, NoConn)
    /\ results' = Append(results, CollectResponse(Item.command, NoConnection))
    /\ origin' = Append(origin, i)
    /\ i' = Len(processed_commands) + 1
    /\ UNCHANGED <<bridgeVars, tool, command, params_json, input_data, context, pc,
                   processed_commands, cur, sent, pending, ret, ref>>

\* A command for which get_unreal_connection returns None: lines 124-127
BatchItemNoConnection ==
    /\ InLoop /\ Item.kind = "run" /\ Prepared.kind = "go"
    /\ FALSE \in LookupChoices
    /\ lookups' = lookups + 1
    /\ script' = Append(script, NoConn)
    /\ AppendResult(CollectResponse(Item.command, NoConnection))
    /\ UNCHANGED <<bridgeVars, tool, command, params_json, input_data, context, pc,
                   processed_commands, cur, sent, pending, ret, ref>>

\* BatchItemSend going on to the next element while the call is in flight
BatchItemSend_NoWait ==
    /\ InLoop /\ Item.kind = "run" /\ Prepared.kind = "go"
    /\ TRUE \in LookupChoices
    /\ lookups' = lookups + 1
    /\ LET call == [idx |-> i, command |-> Item.command, params |-> Prepared.v] IN
       /\ cur' = call
       /\ sent' = Append(sent, call)
       /\ pending' = Append(pending, call)
    /\ i' = i + 1
    /\ UNCHANGED <<bridgeVars, tool, command, params_json, input_data, context, pc,
                   processed_commands, results, origin, script, ret, ref>>

\* A command handed to send_command: lines 124-130
BatchItemSend ==
    /\ InLoop /\ Item.kind = "run" /\ Prepared.kind = "go"
    /\ TRUE \in LookupChoices
    /\ lookups' = lookups + 1
    /\ LET call == [idx |-> i, command |-> Item.command, params |-> Prepared.v] IN
       /\ cur' = call
       /\ sent' = Append(sent, call)
       /\ pending' = Append(pending, call)
    /\ pc' = "remote"
    /\ UNCHANGED <<bridgeVars, tool, command, params_json, input_data, context,
                   processed_commands, i, results, origin, script, ret, ref>>

\* send_command returns or raises, and the element's result is appended:
\* lines 130-150 and 478-497
BatchItemReply ==
    /\ tool = "batch" /\ pc = "remote"
    /\ \E outcome \in ReplyChoices :
        /\ script' = Append(script, outcome)
        /\ AppendResult(CollectResponse(cur.command, FinishCommand(cur.command, outcome)))
    /\ pending' = Tail(pending)
    /\ pc' = "loop"
    /\ UNCHANGED <<bridgeVars, tool, command, params_json, input_data, context,
                   processed_commands, cur, sent, lookups, ret, ref>>

\* The end of the loop: lines 499-504
BatchReturn ==
    /\ tool = "batch" /\ pc = "loop" /\ i > Len(processed_commands)
    /\ ret' = JsonDumps(PyList(results))
    /\ pc' = "done"
    /\ UNCHANGED <<bridgeVars, tool, command, params_json, input_data, context,
                   processed_commands, i, results, origin, cur, sent, pending,
                   lookups, script, ref>>

----------------------------------------------------------------------------
(* execute_mcp_command called on its own, step by step *)

PreparedCmd == PrepareCommand(command, params_json)

\* The call returns, or raises, before the connection is looked up: lines 83-122
CmdRejected ==
    /\ tool = "single" /\ pc = "call" /\ PreparedCmd.kind # "go"
    /\ ret' = IF PreparedCmd.kind = "return" THEN PreparedCmd.v
              ELSE Raised(PreparedCmd.v.s)
    /\ pc' = "done"
    /\ UNCHANGED <<bridgeVars, tool, command, params_json, input_data, context,
                   processed_commands, i, results, origin, cur, sent, pending,
                   lookups, script, ref>>

\* get_unreal_connection returns None: lines 124-127
CmdNoConnection ==
    /\ tool = "single" /\ pc = "call" /\ PreparedCmd.kind = "go"
    /\ lookups' = lookups + 1
    /\ script' = Append(script, NoConn)
    /\ ret' = NoConnection
    /\ pc' = "done"
    /\ UNCHANGED <<bridgeVars, tool, command, params_json, input_data, context,
                   processed_commands, i, results, origin, cur, sent, pending, ref>>

\* The command handed to send_command: lines 124-130
CmdSend ==
    /\ tool = "single" /\ pc = "call" /\ PreparedCmd.kind = "go"
    /\ lookups' = lookups + 1
    /\ LET call == [idx |-> 0, command |-> command, params |-> PreparedCmd.v] IN
       /\ cur' = call
       /\ sent' = Append(sent, call)
       /\ pending' = Append(pending, call)
    /\ pc' = "remote"
    /\ UNCHANGED <<bridgeVars, tool, command, params_json, input_data, context,
                   processed_commands, i, results, origin, script, ret, ref>>

\* send_command returns or raises: lines 130-150
CmdReply ==
    /\ tool = "single" /\ pc = "remote"
    /\ \E outcome \in Replies :
        /\ script' = Append(script, outcome)
        /\ ret' = FinishCommand(cur.command, outcome)
    /\ pending' = Tail(pending)
    /\ pc' = "done"
    /\ UNCHANGED <<bridgeVars, tool, command, params_json, input_data, context,
                   processed_commands, i, results, origin, cur, sent, lookups, ref>>

----------------------------------------------------------------------------
(* The inputs *)

Sq(s) == Tok("sq", s)
Dq(s) == Tok("dq", s)
Num(s) == Tok("num", s)

Command(name, params) == Dict(<< <<"command", PyStr(name)>>, <<"params", params>> >>)

\* A command outside the required-parameter table
CmdGetActors == Command("get_actors_in_level", PyDict(<<>>))
\* A command of the table with its required parameters
CmdBlueprint ==
    Command("create_blueprint",
            Dict(<< <<"name", PyStr("BP_X")>>, <<"parent_class", PyStr("Actor")>> >>))
\* A command of the table without parent_class
CmdNoParent == Command("create_blueprint", Dict(<< <<"name", PyStr("BP_X")>> >>))

\* Mappings with a non-empty string command
WellFormed == {CmdGetActors, CmdBlueprint, CmdNoParent}
\* Elements that are no command: a mapping without command, a number
Malformed == {Dict(<< <<"params", PyDict(<<>>)>> >>), PyInt("5")}
Candidates == WellFormed \cup {PyStr("get_actors_in_level")} \cup Malformed

ListsOf(S) == UNION {[1..n -> S] : n \in 0..MaxCmds}

\* Elements of each kind the loop tells apart: a command name as a str, of
\* the table or not, an empty str, a mapping with an empty command, None
ElementKinds ==
    { PyStr("get_actors_in_level"), PyStr("create_blueprint"), PyStr(""),
      Command("", PyDict(<<>>)), PyNone }

\* Texts no strategy recovers a command list from: a bare sentence, JSON cut
\* short, the keyword-call notation of one command, a JSON number, a Python
\* literal that is no list.
GarbageTexts ==
    { PyStr("hello"),
      PyText(<<P("["), P("{"), Dq("command"), P(":")>>),
      PyText(<<Word("dict"), P("("), Word("command"), P("="), Dq("get_actors_in_level"), P(")")>>),
      PyText(<<P("("), Sq("get_actors_in_level"), P(","), P(")")>>),
      PyText(<<P("{"), Sq("command"), P(":"), Sq("get_actors_in_level"), P("}")>>) }

\* Texts a strategy does recover a list from
ListTexts ==
    { JsonDumps(PyList(<<>>)),
      JsonDumps(PyList(<<CmdGetActors, CmdNoParent>>)),
      JsonDumps(Dict(<< <<"commands", PyList(<<>>)>> >>)),
      JsonDumps(CmdGetActors),
      PyText(<<P("["), P("{"), Sq("command"), P(":"), Sq("get_actors_in_level"), P("}"), P("]")>>),
      PyText(<<P("["), Sq("get_actors_in_level"), P(","), P("]")>>) }

RECURSIVE KeywordTokens(_), KeywordJoin(_, _)
\* A value written in the keyword-call notation of the docstring: a mapping
\* as dict(key=value, ...), a list in brackets, a str in double quotes.
KeywordTokens(v) ==
    CASE v.t = "str" -> <<Val("dq", v.s, v.items)>>
      [] v.t = "int" -> <<Tok("num", v.s)>>
      [] v.t = "none" -> <<Word("None")>>
      [] v.t = "bool" -> <<Word(v.s)>>
      [] v.t = "list" -> <<P("[")>> \o KeywordJoin(v.items, FALSE) \o <<P("]")>>
      [] OTHER -> <<Word("dict"), P("(")>> \o KeywordJoin(v.items, TRUE) \o <<P(")")>>
KeywordJoin(items, pairs) ==
    IF items = <<>> THEN <<>>
    ELSE IF pairs
    THEN <<Word(items[1].s), P("=")>> \o KeywordTokens(items[2])
         \o (IF Len(items) > 2 THEN <<P(",")>> ELSE <<>>)
         \o KeywordJoin(SubSeq(items, 3, Len(items)), TRUE)
    ELSE KeywordTokens(items[1])
         \o (IF Len(items) > 1 THEN <<P(",")>> ELSE <<>>)
         \o KeywordJoin(Tail(items), FALSE)

KeywordText(v) == PyText(KeywordTokens(v))

\* Lists of well-formed commands in the keyword-call notation, as line 176
\* passes one
KeywordTexts == {KeywordText(PyList(l)) : l \in ListsOf(WellFormed) \ {<<>>}}

\* The JSON text of one create_blueprint command that gives name and no
\* parent_class, its parameters under the key the loop reads (line 452) and
\* under the key "parameters"
BlueprintText(key) ==
    JsonDumps(Dict(<< <<"command", PyStr("create_blueprint")>>,
                      <<key, Dict(<< <<"name", PyStr("BP_X")>> >>)>> >>))
SingleCommandTexts == {BlueprintText("params"), BlueprintText("parameters")}

\* Mappings
DictInputs ==
    { Dict(<< <<"commands_list", PyList(<<>>)>> >>),
      Dict(<< <<"commands", PyList(<<CmdGetActors, CmdNoParent>>)>> >>),
      Dict(<< <<"command_list", JsonDumps(PyList(<<>>))>> >>),
      Dict(<< <<"tasks", PyList(<<>>)>> >>),
      Dict(<< <<"note", PyStr("hello")>>, <<"count", PyInt("5")>> >>),
      CmdGetActors,
      Dict(<< <<"command", PyStr("get_actors_in_level")>> >>),
      Dict(<< <<"command", PyStr("get_actors_in_level")>>, <<"note", PyStr("hello")>> >>),
      Dict(<< <<"batch", PyList(<<CmdGetActors>>)>> >>) }

\* Texts held under a wrapper key: the JSON text of a list, the JSON text
\* of one command, a Python literal list
HeldTexts ==
    { JsonDumps(PyList(<<CmdGetActors>>)),
      JsonDumps(CmdGetActors),
      PyText(<<P("["), P("{"), Sq("command"), P(":"), Sq("get_actors_in_level"), P("}"), P("]")>>) }
TextWrappers == {Dict(<< <<key, text>> >>) : key \in {"commands", "batch"}, text \in HeldTexts}

\* Mappings with several wrapper keys: written against the order of
\* possible_keys, with values that are no list before the one that is, with
\* a list as JSON text before a native one
SeveralKeys ==
    { Dict(<< <<"data", PyList(<<CmdGetActors>>)>>,
              <<"commands", PyList(<<CmdBlueprint>>)>> >>),
      Dict(<< <<"commands_list", PyInt("5")>>, <<"commands", PyStr("hello")>>,
              <<"command_list", JsonDumps(CmdGetActors)>>,
              <<"batch", PyList(<<CmdGetActors>>)>>,
              <<"input", PyList(<<CmdBlueprint>>)>> >>),
      Dict(<< <<"batch", PyList(<<CmdBlueprint>>)>>,
              <<"commands", JsonDumps(PyList(<<CmdGetActors>>))>> >>),
      Dict(<< <<"input", PyList(<<>>)>>, <<"data", PyList(<<CmdGetActors>>)>> >>) }

\* The JSON text of a one-element list whose element wraps the list L under
\* key, the format of line 232
NestedText(key, L) == JsonDumps(PyList(<<Dict(<< <<key, L>> >>)>>))
NestedKeys == {"commands_list", "commands", "command_list", "input", "data"}
NestedTexts == {NestedText(key, PyList(<<CmdGetActors>>)) : key \in NestedKeys}

\* Python literal lists that are no JSON, with an element that is no
\* mapping after one that is a command
LiteralTexts ==
    { PyText(<<P("["), P("{"), Sq("command"), P(":"), Sq("get_actors_in_level"), P("}"),
               P(","), Num("5"), P("]")>>),
      PyText(<<P("["), Sq("get_actors_in_level"), P(","), Word("None"), P("]")>>) }

\* Commands whose params is no mapping: a list, a str, a number, None
OddParams ==
    { Command("get_actors_in_level", PyList(<<PyInt("1")>>)),
      Command("get_actors_in_level", PyStr("hello")),
      Command("create_blueprint", PyInt("5")),
      Command("spawn_actor", PyNone) }

\* The JSON texts of the mappings
MappingTexts == {JsonDumps(d) : d \in DictInputs}

BatchInputs ==
    {PyList(l) : l \in ListsOf(Candidates)} \cup GarbageTexts \cup ListTexts
    \cup DictInputs \cup {PyNone, PyInt("5"), JsonDumps(PyInt("5"))}
    \cup KeywordTexts \cup SingleCommandTexts \cup MappingTexts
    \cup HeldTexts \cup TextWrappers
    \cup {PyList(l) : l \in ListsOf(ElementKinds)}
    \cup SeveralKeys \cup NestedTexts \cup LiteralTexts
    \cup {PyList(l) : l \in ListsOf(OddParams)}

----------------------------------------------------------------------------
(* ollama_mcp_bridge.py: the state of the module and what its endpoints   *)
(* compute.  The text Ollama generates is a text like the others: the     *)
(* tokens of its JSON, its code fences and its words.                     *)

STATUS_CHECK_INTERVAL == 60

\* cached_status as the module creates it: lines 76-81
CachedStatusLoaded ==
    [mcp_connected |-> FALSE, ollama_available |-> FALSE, message_history |-> <<>>,
     timestamp |-> 0]

\* Nothing served yet
NoRequest ==
    [endpoint |-> "none", status |-> 0, body |-> PyNone, detail |-> <<>>, calls |-> <<>>,
     text |-> PyNone, conn |-> "unasked", history |-> <<>>,
     cache |-> CachedStatusLoaded, last |-> 0, queried |-> FALSE, at |-> 0]

\* The module just loaded: lines 72-81.  The clock reads some time later
\* than STATUS_CHECK_INTERVAL seconds after the epoch.
BridgeLoaded ==
    /\ message_history = <<>>
    /\ last_status_check = 0
    /\ cached_status = CachedStatusLoaded
    /\ now = STATUS_CHECK_INTERVAL + 1
    /\ served = NoRequest

\* One entry of message_history
Entry(source, data) == [source |-> source, data |-> data]

\* message_history[-20:] if message_history else []
LastEntries(history) ==
    IF Len(history) <= 20 THEN history
    ELSE SubSeq(history, Len(history) - 20 + 1, Len(history))

\* unreal_conn is not None and unreal_conn.connected, for what
\* get_unreal_connection returned: None, a closed or an open connection
Connections == {"none", "closed", "open"}
Connected(conn) == conn = "open"

\* The three backquotes that open and close a code block
Fence == Tok("fence", "")

\* Where the group of json_patterns[0] starts for a match that starts at
\* token a: after the fence and an optional json; 0 when there is no match
FencedStart(toks, a) ==
    IF toks[a] # Fence THEN 0
    ELSE IF a + 1 <= Len(toks) /\ toks[a + 1] = P("{") THEN a + 1
    ELSE IF a + 2 <= Len(toks) /\ toks[a + 1] = Word("json") /\ toks[a + 2] = P("{")
    THEN a + 2
    ELSE 0

\* Where the lazy group that starts at b ends: at the first closing brace
\* that a fence follows; 0 when there is none
FencedEnd(toks, b) ==
    IF b = 0 THEN 0
    ELSE IF \E e \in (b + 1)..(Len(toks) - 1) : toks[e] = P("}") /\ toks[e + 1] = Fence
    THEN CHOOSE e \in (b + 1)..(Len(toks) - 1) :
            /\ toks[e] = P("}") /\ toks[e + 1] = Fence
            /\ \A f \in (b + 1)..(e - 1) : ~(toks[f] = P("}") /\ toks[f + 1] = Fence)
    ELSE 0

RECURSIVE FencedMatches(_, _)
\* re.findall(json_patterns[0], text) from token a on: line 468
FencedMatches(toks, a) ==
    IF a > Len(toks) THEN <<>>
    ELSE IF FencedEnd(toks, FencedStart(toks, a)) = 0 THEN FencedMatches(toks, a + 1)
    ELSE <<SubSeq(toks, FencedStart(toks, a), FencedEnd(toks, FencedStart(toks, a)))>>
         \o FencedMatches(toks, FencedEnd(toks, FencedStart(toks, a)) + 2)

RECURSIVE ObjectEnd(_, _, _)
\* Where an object ends that holds, from token p on and at the given depth,
\* no object inside an object inside it; 0 when there is no such end
ObjectEnd(toks, p, depth) ==
    IF p > Len(toks) THEN 0
    ELSE IF toks[p] = P("{")
    THEN IF depth = 2 THEN 0 ELSE ObjectEnd(toks, p + 1, 2)
    ELSE IF toks[p] = P("}")
    THEN IF depth = 1 THEN p ELSE ObjectEnd(toks, p + 1, 1)
    ELSE ObjectEnd(toks, p + 1, depth)

RECURSIVE NestedMatches(_, _)
\* re.findall(json_patterns[1], text) from token a on: line 469
NestedMatches(toks, a) ==
    IF a > Len(toks) THEN <<>>
    ELSE IF toks[a] # P("{") \/ ObjectEnd(toks, a + 1, 1) = 0
    THEN NestedMatches(toks, a + 1)
    ELSE <<SubSeq(toks, a, ObjectEnd(toks, a + 1, 1))>>
         \o NestedMatches(toks, ObjectEnd(toks, a + 1, 1) + 1)

Positions(toks, tk) == {p \in 1..Len(toks) : toks[p] = tk}
Least(S) == CHOOSE p \in S : \A q \in S : p <= q
Greatest(S) == CHOOSE p \in S : \A q \in S : q <= p

\* re.findall(json_patterns[2], text, re.DOTALL): from the first opening
\* brace to the last closing one: line 470
GreedyMatches(toks) ==
    IF Positions(toks, P("{")) = {} \/ Positions(toks, P("}")) = {} THEN <<>>
    ELSE IF Greatest(Positions(toks, P("}"))) < Least(Positions(toks, P("{"))) THEN <<>>
    ELSE <<SubSeq(toks, Least(Positions(toks, P("{"))), Greatest(Positions(toks, P("}"))))>>

\* json_patterns with the second pattern tried first
JsonPatterns_NestedFirst == <<"nested", "fenced", "greedy">>

\* json_patterns: lines 467-471
JsonPatterns == <<"fenced", "nested", "greedy">>

\* re.findall(pattern, generated_text, re.DOTALL): line 475
FindAll(pattern, toks) ==
    CASE pattern = "fenced" -> FencedMatches(toks, 1)
      [] pattern = "nested" -> NestedMatches(toks, 1)
      [] OTHER -> GreedyMatches(toks)

\* isinstance(parsed, dict) and "command" in parsed, for
\* parsed = json.loads(potential_json.strip()): lines 480-481
CommandObject(r) == r.ok /\ IsDict(r.v) /\ DictHas(r.v, "command")

RECURSIVE FirstCommandObject(_, _)
\* The loop over the matches of one pattern, from match n on: lines 477-491
FirstCommandObject(matches, n) ==
    IF n > Len(matches) THEN Missing
    ELSE IF CommandObject(JsonLoads(PyText(matches[n])))
    THEN JsonLoads(PyText(matches[n])).v
    ELSE FirstCommandObject(matches, n + 1)

RECURSIVE ExtractedCommand(_, _)
\* command_json after the loop over the patterns, from pattern n on: lines
\* 473-493
ExtractedCommand(generated_text, n) ==
    IF n > Len(JsonPatterns) THEN Missing
    ELSE OrElse(FirstCommandObject(FindAll(JsonPatterns[n], Lex(generated_text)), 1),
                ExtractedCommand(generated_text, n + 1))

NoCommandMessage == "No se pudo extraer un comando JSON valido de la respuesta de Ollama"

\* What process_natural_language returns when no command was found: lines
\* 498-502
NoCommandBody(generated_text) ==
    Dict(<< <<"status", PyStr("error")>>, <<"message", PyStr(NoCommandMessage)>>,
            <<"ollama_response", generated_text>> >>)

\* What it returns after the command was sent: lines 555-560
SuccessBody(generated_text, command_json, mcp_response) ==
    Dict(<< <<"status", PyStr("success")>>, <<"ollama_response", generated_text>>,
            <<"command_extracted", command_json>>, <<"mcp_response", mcp_response>> >>)

\* One call of the connection's send_command
Call(name, parameters) == [command |-> name, parameters |-> parameters]

\* The entries process_natural_language appends before it looks for the
\* connection: lines 518-537
RequestEntries(text, model, command_json) ==
    << Entry("ollama_request", Dict(<< <<"text", text>>, <<"model", model>> >>)),
       Entry("ollama_response", Dict(<< <<"generated_command", command_json>> >>)),
       Entry("client",
             Dict(<< <<"command", DictGetDefault(command_json, "command", PyNone)>>,
                     <<"parameters",
                       DictGetDefault(command_json, "parameters", PyDict(<<>>))>> >>)) >>

NoConnectionDetail == "No hay conexion con el servidor MCP"
OllamaErrorDetail == "Error en la solicitud a Ollama"
UnexpectedErrorDetail == "Error inesperado procesando lenguaje natural"

\* OLLAMA_MODEL, when the environment does not set it: line 65
OLLAMA_MODEL == PyStr("cogito:8b")

\* request.text
RequestText == PyStr("crea un cubo")

\* unreal_conn.send_command(command, parameters) for command_json: lines
\* 530-531, 546
SentCommand(command_json) ==
    Call(DictGetDefault(command_json, "command", PyNone),
         DictGetDefault(command_json, "parameters", PyDict(<<>>)))

\* What the connection's send_command does in the bridge
BridgeReplies ==
    { Returns(Dict(<< <<"status", PyStr("success")>>, <<"result", PyDict(<<>>)>> >>)),
      Raises("Connection lost") }

\* The requests of /api/send-command
DirectRequests ==
    { Call(PyStr("get_actors_in_level"), PyDict(<<>>)),
      Call(PyStr("delete_actor"), Dict(<< <<"name", PyStr("Cube")>> >>)) }

\* Commands as the system prompt shows them
GenGetActors ==
    Dict(<< <<"command", PyStr("get_actors_in_level")>>, <<"parameters", PyDict(<<>>)>> >>)
GenCreateActor ==
    Dict(<< <<"command", PyStr("create_actor")>>,
            <<"parameters", Dict(<< <<"name", PyStr("Cube")>> >>)>> >>)
GenSelected == Dict(<< <<"command", PyStr("get_selected_actors")>> >>)
\* an object inside an object inside the command
GenCamera ==
    Dict(<< <<"command", PyStr("set_editor_viewport_camera")>>,
            <<"parameters", Dict(<< <<"location", Dict(<< <<"x", PyInt("0")>> >>)>> >>)>> >>)
GenNoCommand == Dict(<< <<"name", PyStr("Cube")>> >>)
\* an object json.loads does not take
GenBroken == <<P("{"), Val("dq", "command", <<>>), P(":"), Val("dq", "create_actor", <<>>),
               P(","), P("}")>>

Fenced(toks) == <<Fence, Word("json")>> \o toks \o <<Fence>>

\* What Ollama generates: prose, objects, code fences
GeneratedTexts ==
    { PyText(<<Word("No"), Word("puedo")>>),
      PyText(JsonTokens(GenGetActors)),
      PyText(JsonTokens(GenSelected)),
      PyText(<<Word("Claro")>> \o Fenced(JsonTokens(GenCreateActor))),
      PyText(<<Fence>> \o JsonTokens(GenGetActors) \o <<Fence>>),
      PyText(JsonTokens(GenNoCommand) \o JsonTokens(GenCreateActor)
             \o JsonTokens(GenGetActors)),
      PyText(JsonTokens(GenCreateActor) \o <<Word("o")>> \o Fenced(JsonTokens(GenGetActors))),
      PyText(Fenced(GenBroken) \o JsonTokens(GenGetActors)),
      PyText(Fenced(JsonTokens(GenNoCommand)) \o Fenced(JsonTokens(GenCreateActor))),
      PyText(JsonTokens(GenCamera)),
      PyText(JsonTokens(GenCamera) \o JsonTokens(GenCamera)),
      PyText(JsonTokens(GenCamera) \o JsonTokens(GenGetActors)),
      PyText(Fenced(JsonTokens(GenNoCommand))),
      PyText(JsonTokens(PyList(<<GenCreateActor, GenGetActors>>))),
      PyText(<<P("}"), Word("y"), P("{")>>) }

\* The seconds between two looks at the clock
TimeSteps == {30, 61}

\* The response that goes back to the client, with what the endpoint did
\* (the text it got from Ollama, the connection it found, the calls of
\* send_command it made) and the state it found
Respond(endpoint, status, body, detail, calls, text, conn) ==
    [endpoint |-> endpoint, status |-> status, body |-> body, detail |-> detail,
     calls |-> calls, text |-> text, conn |-> conn, history |-> message_history,
     cache |-> cached_status, last |-> last_status_check, queried |-> FALSE, at |-> now]

\* raise HTTPException(status_code=500, detail=str(e)) for the HTTPException
\* of line 273, which the except of line 282 catches: lines 270-273, 282-284
SendCommandRefused(requests) ==
    /\ tool = "bridge"
    /\ \E request \in requests, conn \in Connections :
          /\ ~Connected(conn)
          /\ served' = Respond("send_command", 500, PyNone, <<NoConnectionDetail>>, <<>>,
                               PyNone, conn)
    /\ UNCHANGED <<toolVars, message_history, last_status_check, cached_status, now>>

\* unreal_conn.send_command raises: lines 275, 282-284
SendCommandFailed(requests) ==
    /\ tool = "bridge"
    /\ \E request \in requests, reply \in {r \in BridgeReplies : r.raised} :
          served' = Respond("send_command", 500, PyNone, <<reply.v.s>>,
                            <<Call(request.command, request.parameters)>>, PyNone, "open")
    /\ UNCHANGED <<toolVars, message_history, last_status_check, cached_status, now>>

\* unreal_conn.send_command returns: lines 275-281
SendCommandDone(requests, room) ==
    /\ tool = "bridge"
    /\ Len(message_history) + 2 <= room
    /\ \E request \in requests, reply \in {r \in BridgeReplies : ~r.raised} :
          /\ message_history' =
                message_history
                \o << Entry("client", Dict(<< <<"command", request.command>>,
                                              <<"parameters", request.parameters>> >>)),
                      Entry("unreal", reply.v) >>
          /\ served' = Respond("send_command", 200, reply.v, <<>>,
                               <<Call(request.command, request.parameters)>>, PyNone, "open")
    /\ UNCHANGED <<toolVars, last_status_check, cached_status, now>>

\* client.chat raises: the except of line 570 raises a 500, the except of
\* line 575 catches it and raises its own: lines 449-455, 570-594
NaturalLanguageOllamaFailed ==
    /\ tool = "bridge"
    /\ served' = Respond("process_natural_language", 500, PyNone,
                         <<UnexpectedErrorDetail, OllamaErrorDetail, "Connection refused">>,
                         <<>>, PyNone, "unasked")
    /\ UNCHANGED <<toolVars, message_history, last_status_check, cached_status, now>>

\* No match of any pattern is a JSON object with a command: lines 495-502
NaturalLanguageNoCommand(texts) ==
    /\ tool = "bridge"
    /\ \E generated_text \in texts :
          /\ ExtractedCommand(generated_text, 1) = Missing
          /\ served' = Respond("process_natural_language", 200,
                               NoCommandBody(generated_text), <<>>, <<>>, generated_text,
                               "unasked")
    /\ UNCHANGED <<toolVars, message_history, last_status_check, cached_status, now>>

\* The command is recorded and there is no connection: the HTTPException
\* of line 542 is caught at line 570, and what that raises at line 575:
\* lines 517-542, 570-594
NaturalLanguageRefused(texts, room) ==
    /\ tool = "bridge"
    /\ Len(message_history) + 3 <= room
    /\ \E generated_text \in texts, conn \in Connections :
          /\ ExtractedCommand(generated_text, 1) # Missing
          /\ ~Connected(conn)
          /\ message_history' =
                message_history
                \o RequestEntries(RequestText, OLLAMA_MODEL,
                                  ExtractedCommand(generated_text, 1))
          /\ served' = Respond("process_natural_language", 500, PyNone,
                               <<UnexpectedErrorDetail, OllamaErrorDetail,
                                 NoConnectionDetail>>, <<>>, generated_text, conn)
    /\ UNCHANGED <<toolVars, last_status_check, cached_status, now>>

\* The command is recorded and unreal_conn.send_command raises: lines
\* 517-546, 570-594
NaturalLanguageSendFailed(texts, room) ==
    /\ tool = "bridge"
    /\ Len(message_history) + 3 <= room
    /\ \E generated_text \in texts, reply \in {r \in BridgeReplies : r.raised} :
          /\ ExtractedCommand(generated_text, 1) # Missing
          /\ message_history' =
                message_history
                \o RequestEntries(RequestText, OLLAMA_MODEL,
                                  ExtractedCommand(generated_text, 1))
          /\ served' = Respond("process_natural_language", 500, PyNone,
                               <<UnexpectedErrorDetail, OllamaErrorDetail, reply.v.s>>,
                               <<SentCommand(ExtractedCommand(generated_text, 1))>>,
                               generated_text, "open")
    /\ UNCHANGED <<toolVars, last_status_check, cached_status, now>>

\* The command is recorded and sent, and its response recorded: lines
\* 517-560
NaturalLanguageDone(texts, room) ==
    /\ tool = "bridge"
    /\ Len(message_history) + 4 <= room
    /\ \E generated_text \in texts, reply \in {r \in BridgeReplies : ~r.raised} :
          /\ ExtractedCommand(generated_text, 1) # Missing
          /\ message_history' =
                message_history
                \o RequestEntries(RequestText, OLLAMA_MODEL,
                                  ExtractedCommand(generated_text, 1))
                \o <<Entry("unreal", reply.v)>>
          /\ served' = Respond("process_natural_language", 200,
                               SuccessBody(generated_text,
                                           ExtractedCommand(generated_text, 1), reply.v),
                               <<>>,
                               <<SentCommand(ExtractedCommand(generated_text, 1))>>,
                               generated_text, "open")
    /\ UNCHANGED <<toolVars, last_status_check, cached_status, now>>

\* current_time - last_status_check >= STATUS_CHECK_INTERVAL
Stale_AtInterval(current_time) ==
    current_time - last_status_check >= STATUS_CHECK_INTERVAL

\* current_time - last_status_check > STATUS_CHECK_INTERVAL: line 224
Stale(current_time) == current_time - last_status_check > STATUS_CHECK_INTERVAL

\* get_status asks the connection and Ollama again: lines 221-235, 241-243
GetStatusRefresh ==
    /\ tool = "bridge"
    /\ Stale(now)
    /\ \E conn \in Connections, ollama_available \in BOOLEAN :
          /\ cached_status' =
                [mcp_connected |-> Connected(conn), ollama_available |-> ollama_available,
                 message_history |-> LastEntries(message_history), timestamp |-> now]
          /\ served' = [Respond("get_status", 200, PyNone, <<>>, <<>>, PyNone, conn)
                           EXCEPT !.queried = TRUE]
    /\ last_status_check' = now
    /\ UNCHANGED <<toolVars, message_history, now>>

\* get_status answers from the cache: lines 221-224, 236-243
GetStatusCached ==
    /\ tool = "bridge"
    /\ ~Stale(now)
    /\ cached_status' =
          [cached_status EXCEPT !.message_history = LastEntries(message_history)]
    /\ served' = Respond("get_status", 200, PyNone, <<>>, <<>>, PyNone, "unasked")
    /\ UNCHANGED <<toolVars, message_history, last_status_check, now>>

\* Time passes
Tick(limit) ==
    /\ tool = "bridge"
    /\ \E seconds \in TimeSteps :
          /\ now + seconds <= limit
          /\ now' = now + seconds
    /\ UNCHANGED <<toolVars, message_history, last_status_check, cached_status, served>>

----------------------------------------------------------------------------
(* The specifications *)

\* The output of an earlier task that the frames of the callers hold in a
\* context list, None when they hold none: lines 195-199
ContextOutputs == {PyNone, JsonDumps(PyList(<<CmdGetActors>>))}

\* One call of execute_mcp_command_batch
Init ==
    /\ BridgeLoaded
    /\ tool = "batch"
    /\ command = PyNone /\ params_json = PyNone
    /\ input_data \in BatchInputs
    /\ context \in ContextOutputs
    /\ ref = NoRef
    /\ Fresh

Next ==
    \/ BatchExtract
    \/ BatchItemInvalid
    \/ BatchItemRejected
    \/ BatchItemNoConnection
    \/ BatchItemSend
    \/ BatchItemReply
    \/ BatchReturn

Spec == Init /\ [][Next]_vars

\* One call of execute_mcp_command
CmdNames ==
    { PyStr("get_actors_in_level"), PyStr("create_blueprint"), PyStr("spawn_actor"),
      PyStr("add_component_to_blueprint") }

BlueprintParams == Dict(<< <<"name", PyStr("BP_X")>>, <<"parent_class", PyStr("Actor")>> >>)

\* A mapping, a JSON string decoding to a mapping, a list, a number, a
\* string or null, an empty or blank string, an absent value, a string that
\* is no JSON, and values of other types.
ParamInputs ==
    { PyNone, PyStr(""), PyStr(" "), PyDict(<<>>),
      BlueprintParams,
      Dict(<< <<"name", PyStr("BP_X")>> >>),
      JsonDumps(BlueprintParams),
      JsonDumps(PyList(<<PyStr("name")>>)),
      JsonDumps(PyList(<<PyInt("1")>>)),
      JsonDumps(PyInt("5")),
      JsonDumps(PyStr("abc")),
      JsonDumps(PyStr("name")),
      JsonDumps(PyNone),
      PyText(<<P("{"), Word("bad")>>),
      PyList(<<PyInt("1")>>),
      PyInt("5"),
      PyInt("0"),
      Dict(<< <<"name", PyStr("BP_X")>>, <<"parent_class", PyStr("")>> >>),
      Dict(<< <<"name", PyList(<<>>)>>, <<"type", PyStr("CUBE")>> >>),
      Dict(<< <<"name", PyStr("Cube")>>, <<"type", PyStr("CUBE")>> >>),
      Dict(<< <<"blueprint_name", PyStr("BP_X")>>, <<"component_type", PyStr("Mesh")>>,
              <<"component_name", PyStr("Body")>> >>),
      JsonDumps(Dict(<< <<"blueprint_name", PyStr("BP_X")>>,
                        <<"component_type", PyStr("Mesh")>>,
                        <<"component_name", PyInt("0")>> >>)) }

InitCmd ==
    /\ BridgeLoaded
    /\ tool = "single"
    /\ command \in CmdNames
    /\ params_json \in ParamInputs
    /\ input_data = PyNone
    /\ context = PyNone
    /\ ref = NoRef
    /\ Fresh

NextCmd ==
    \/ CmdRejected
    \/ CmdNoConnection
    \/ CmdSend
    \/ CmdReply

SpecCmd == InitCmd /\ [][NextCmd]_vars

\* Two calls of execute_mcp_command_batch against a connection that behaves
\* the same way in both: the first with a native list, the second with the
\* same list as JSON text or wrapped in a mapping.
Variants(L) ==
    {JsonDumps(L)}
    \cup {Dict(<< <<key, L>> >>) : key \in {"commands_list", "commands", "command_list"}}

\* The tool is called again: line 153
SecondCall ==
    /\ tool = "batch" /\ pc = "done" /\ ~ref.set
    /\ ref' = [set |-> TRUE, input |-> input_data, script |-> script, sent |-> sent,
               ret |-> ret]
    /\ input_data' \in Variants(input_data)
    /\ pc' = "call"
    /\ processed_commands' = <<>>
    /\ i' = 1
    /\ results' = <<>>
    /\ origin' = <<>>
    /\ cur' = NoCall
    /\ sent' = <<>>
    /\ pending' = <<>>
    /\ lookups' = 0
    /\ script' = <<>>
    /\ ret' = NotReturned
    /\ UNCHANGED <<bridgeVars, tool, command, params_json, context>>

InitPair ==
    /\ BridgeLoaded
    /\ tool = "batch"
    /\ command = PyNone /\ params_json = PyNone
    /\ input_data \in {PyList(l) : l \in ListsOf(Candidates)}
    /\ context = PyNone
    /\ ref = NoRef
    /\ Fresh

NextPair ==
    \/ BatchExtract
    \/ BatchItemInvalid
    \/ BatchItemRejected
    \/ BatchItemNoConnection
    \/ BatchItemSend
    \/ BatchItemReply
    \/ BatchReturn
    \/ SecondCall

SpecPair == InitPair /\ [][NextPair]_vars

\* The bridge serving /api/send-command and /api/process-nl, one request
\* after the other: the endpoints are coroutines that never await
InitBridge ==
    /\ BridgeLoaded
    /\ tool = "bridge"
    /\ command = PyNone /\ params_json = PyNone
    /\ input_data = PyNone
    /\ context = PyNone
    /\ ref = NoRef
    /\ Fresh

NextBridge ==
    \/ SendCommandRefused(DirectRequests)
    \/ SendCommandFailed(DirectRequests)
    \/ SendCommandDone(DirectRequests, MaxHistory)
    \/ NaturalLanguageOllamaFailed
    \/ NaturalLanguageNoCommand(GeneratedTexts)
    \/ NaturalLanguageRefused(GeneratedTexts, MaxHistory)
    \/ NaturalLanguageSendFailed(GeneratedTexts, MaxHistory)
    \/ NaturalLanguageDone(GeneratedTexts, MaxHistory)

SpecBridge == InitBridge /\ [][NextBridge]_vars

\* The bridge serving /api/status while time passes and direct commands
\* fill the history
NextStatus ==
    \/ GetStatusRefresh
    \/ GetStatusCached
    \/ Tick(MaxTime)
    \/ SendCommandDone({Call(PyStr("get_actors_in_level"), PyDict(<<>>))}, MaxStatusHistory)

SpecStatus == InitBridge /\ [][NextStatus]_vars

----------------------------------------------------------------------------
(* The claims *)

Done == tool = "batch" /\ pc = "done"
\* The batch went through its loop and returned the results list.
RanLoop == Done /\ processed_commands # <<>>

\* An element the batch runs as a command, with its name and parameters
Runnable(c) ==
    \/ IsDict(c) /\ DictHas(c, "command") /\ IsStr(DictGet(c, "command"))
       /\ Truthy(DictGet(c, "command"))
    \/ IsStr(c) /\ Truthy(c)
NameOf(c) == IF IsDict(c) THEN DictGet(c, "command") ELSE c
ParamsOf(c) ==
    IF IsDict(c) /\ DictHas(c, "params") /\ IsDict(DictGet(c, "params"))
    THEN DictGet(c, "params")
    ELSE PyDict(<<>>)

\* A command of the required-parameter table that lacks a required parameter
LacksRequired(c) ==
    /\ Runnable(c)
    /\ \E r \in 1..Len(RequiredParams(NameOf(c))) :
           \/ ~DictHas(ParamsOf(c), RequiredParams(NameOf(c))[r][1])
           \/ ~Truthy(DictGet(ParamsOf(c), RequiredParams(NameOf(c))[r][1]))
Valid(c) == Runnable(c) /\ ~LacksRequired(c)

\* The positions in sent of the send_command calls made for element n
CallsFor(n) == {k \in 1..Len(sent) : sent[k].idx = n}
\* What send_command did at each call that has ended, in order
Replied == SelectSeq(script, LAMBDA e : e.conn)

StatusOf(envelope) == DictGetDefault(envelope, "status", PyNone)
ConnectionErrorEnvelope == ErrorEnvelope("No se pudo conectar con Unreal Engine")
MissingParamEnvelope(c, r) ==
    ErrorEnvelope("Parametro obligatorio '" \o RequiredParams(NameOf(c))[r][1] \o "' ("
                  \o RequiredParams(NameOf(c))[r][2]
                  \o ") no proporcionado para el comando '" \o NameOf(c).s \o "'")

\* What was returned, decoded
ReturnedList == JsonLoads(ret).ok /\ IsList(JsonLoads(ret).v)
ReturnedEnvelope == JsonLoads(ret).ok /\ IsDict(JsonLoads(ret).v)

\* A native list of well-formed candidates: mappings with a non-empty string command
WellFormedList(v) ==
    /\ IsList(v) /\ v.items # <<>>
    /\ \A n \in 1..Len(v.items) : IsDict(v.items[n]) /\ Runnable(v.items[n])

\* C1: for a non-empty native list of N well-formed candidates the batch
\* returns exactly N envelopes and envelope n is the outcome of candidate n:
\* it was appended for candidate n, a call made for candidate n carries its
\* command and parameters, and the envelope is what that call's return or
\* exception normalises to; a candidate with no call has an error envelope.
C1_OneEnvelopePerCandidateInOrder ==
    (Done /\ WellFormedList(input_data)) =>
        /\ ReturnedList
        /\ JsonLoads(ret).v.items = results
        /\ Len(results) = Len(input_data.items)
        /\ origin = [n \in 1..Len(input_data.items) |-> n]
        /\ \A n \in 1..Len(input_data.items) :
               /\ Cardinality(CallsFor(n)) <= 1
               /\ \A k \in CallsFor(n) :
                      /\ sent[k].command = NameOf(input_data.items[n])
                      /\ sent[k].params = ParamsOf(input_data.items[n])
                      /\ results[n] = JsonLoads(FinishCommand(sent[k].command, Replied[k])).v
               /\ CallsFor(n) = {} => StatusOf(results[n]) = PyStr("error")

\* C1 witness: a two-candidate batch returned, one candidate turned down and
\* one sent, its call having raised.
C1_Witness ==
    /\ Done /\ WellFormedList(input_data) /\ Len(input_data.items) = 2
    /\ LacksRequired(input_data.items[1])
    /\ CallsFor(2) # {} /\ Replied[1].raised

\* C2: a candidate of the required-parameter table that lacks a required
\* parameter has an error envelope at its own index that names the first
\* missing parameter, and no send_command call; every other candidate has its
\* result too, and a valid one was invoked (it has its call, or the
\* no-connection envelope of its lookup).
C2_MissingParamIsolated ==
    RanLoop =>
        \A n \in 1..Len(processed_commands) :
            LacksRequired(processed_commands[n]) =>
                /\ Len(results) = Len(processed_commands)
                /\ origin[n] = n
                /\ \E r \in 1..Len(RequiredParams(NameOf(processed_commands[n]))) :
                       results[n] = MissingParamEnvelope(processed_commands[n], r)
                /\ CallsFor(n) = {}
                /\ \A m \in 1..Len(processed_commands) :
                       (m # n /\ Valid(processed_commands[m])) =>
                           \/ CallsFor(m) # {}
                           \/ results[m] = ConnectionErrorEnvelope

\* C2 witness: the first candidate lacks parent_class, the second was sent.
C2_Witness ==
    /\ RanLoop /\ Len(processed_commands) = 2
    /\ LacksRequired(processed_commands[1])
    /\ CallsFor(2) # {}

\* C3: when send_command raises for a candidate, the result at its index has
\* status error, the command name and the exception's message, and at the end
\* every candidate has its result, the valid ones after it having been invoked.
C3_RaiseIsolated ==
    \A k \in 1..Len(Replied) :
        Replied[k].raised =>
            /\ Len(results) >= sent[k].idx
            /\ StatusOf(results[sent[k].idx]) = PyStr("error")
            /\ DictGetDefault(results[sent[k].idx], "command", PyNone) = sent[k].command
            /\ DictGetDefault(results[sent[k].idx], "error", PyNone) =
                   PyStr("Error ejecutando comando MCP '" \o sent[k].command.s \o "': "
                         \o Replied[k].v.s)
            /\ Done =>
                   /\ Len(results) = Len(processed_commands)
                   /\ \A m \in (sent[k].idx + 1)..Len(processed_commands) :
                          Valid(processed_commands[m]) =>
                              \/ CallsFor(m) # {}
                              \/ results[m] = ConnectionErrorEnvelope

\* C3 witness: the first call raised and the second candidate was sent after it.
C3_Witness ==
    /\ Done /\ Len(Replied) = 2 /\ Replied[1].raised
    /\ sent[1].idx = 1 /\ sent[2].idx = 2

\* C4: execute_mcp_command never propagates an exception to its caller:
\* whatever the command name and the parameters value, the call ends with a
\* returned envelope.
C4_NeverRaises == tool = "single" => ret.t # "raised"

\* C5: at most one send_command call is in flight; a call in flight is the
\* last one made and every element before its own has its result; a call
\* that is over has its element's result; calls are made in candidate order.
C5_CallsSequential ==
    /\ Len(pending) <= 1
    /\ \A k \in 1..Len(sent) :
           IF k = Len(sent) /\ pending # <<>>
           THEN pending = <<sent[k]>> /\ Len(results) = sent[k].idx - 1
           ELSE Len(results) >= sent[k].idx
    /\ \A k \in 1..(Len(sent) - 1) : sent[k].idx < sent[k + 1].idx

\* C5 witness: the second call of a batch is in flight, the first one over.
C5_Witness ==
    /\ tool = "batch" /\ pc = "remote"
    /\ Len(sent) = 2 /\ pending = <<sent[2]>> /\ Len(results) = 1

\* C6: the JSON text of a list yields the calls and the return value the list
\* itself yields against a connection that behaves the same way.
C6_JsonTextAsNativeList ==
    (Done /\ ref.set /\ input_data = JsonDumps(ref.input)) =>
        /\ sent = ref.sent
        /\ ret = ref.ret

\* C6 witness: both calls are over, with two envelopes and a call made.
C6_Witness ==
    /\ Done /\ ref.set /\ input_data = JsonDumps(ref.input)
    /\ Len(ref.input.items) = 2 /\ Len(results) = 2 /\ sent # <<>>
    /\ ~Runnable(ref.input.items[1])

\* C7: a list wrapped in a mapping under commands_list, commands or
\* command_list yields the calls and the return value the list itself yields.
C7_WrappedAsNativeList ==
    \A key \in {"commands_list", "commands", "command_list"} :
        (Done /\ ref.set /\ input_data = Dict(<< <<key, ref.input>> >>)) =>
            /\ sent = ref.sent
            /\ ret = ref.ret

\* C7 witness: both calls are over for a list wrapped under command_list.
C7_Witness ==
    /\ Done /\ ref.set /\ input_data = Dict(<< <<"command_list", ref.input>> >>)
    /\ Len(results) = 2 /\ sent # <<>>

\* The batch looked the connection up and no lookup found one.
NoConnectionFound == script # <<>> /\ \A k \in 1..Len(script) : ~script[k].conn

\* C8 as stated: with no connection every candidate of a non-empty batch
\* yields the connection-error envelope, no send_command call is made and
\* there are as many envelopes as candidates.
C8_EveryCandidateConnectionError ==
    (RanLoop /\ NoConnectionFound) =>
        /\ sent = <<>>
        /\ ReturnedList
        /\ Len(results) = Len(processed_commands)
        /\ \A n \in 1..Len(results) : results[n] = ConnectionErrorEnvelope

\* C8 amended: with no connection no send_command call is made and there are
\* as many envelopes as candidates, each with status error; a candidate that
\* is a command and passes the validation yields the connection-error
\* envelope, any other its own error envelope.
C8_NoConnectionAllErrors ==
    (RanLoop /\ NoConnectionFound) =>
        /\ sent = <<>>
        /\ ReturnedList
        /\ JsonLoads(ret).v.items = results
        /\ Len(results) = Len(processed_commands)
        /\ \A n \in 1..Len(results) :
               /\ StatusOf(results[n]) = PyStr("error")
               /\ Valid(processed_commands[n]) => results[n] = ConnectionErrorEnvelope

\* C8 witness: a batch of a valid command and one without parent_class, with
\* no connection.
C8_Witness ==
    /\ RanLoop /\ NoConnectionFound /\ Len(results) = 2
    /\ Valid(processed_commands[1]) /\ lookups = 1
    /\ LacksRequired(processed_commands[2])

WrapperKeys == <<"commands_list", "commands", "command_list", "batch", "input", "data">>

\* An input from which the empty list is extracted: the empty list, the JSON
\* text [], or a mapping whose first wrapper key holding a list holds the
\* empty list.
EmptyInput(v) ==
    \/ v = PyList(<<>>)
    \/ IsStr(v) /\ JsonLoads(v) = [ok |-> TRUE, v |-> PyList(<<>>)]
    \/ /\ IsDict(v)
       /\ \E k \in 1..Len(WrapperKeys) :
              /\ DictHas(v, WrapperKeys[k])
              /\ DictGet(v, WrapperKeys[k]) = PyList(<<>>)
              /\ \A j \in 1..(k - 1) :
                     DictHas(v, WrapperKeys[j]) =>
                         /\ ~IsList(DictGet(v, WrapperKeys[j]))
                         /\ ~IsStr(DictGet(v, WrapperKeys[j]))

\* C9: an empty candidate sequence yields one envelope with status warning,
\* no lookup and no send_command call.
C9_EmptyListWarning ==
    (Done /\ EmptyInput(input_data)) =>
        /\ ReturnedEnvelope
        /\ StatusOf(JsonLoads(ret).v) = PyStr("warning")
        /\ sent = <<>> /\ lookups = 0

\* C9 witness: the batch returned for a mapping wrapping the empty list.
C9_Witness ==
    /\ Done /\ IsDict(input_data) /\ EmptyInput(input_data)

\* A text that is no JSON, no Python literal list, and that the rewriting of
\* dict( to JSON gets no list from.
Unrecoverable(text) ==
    /\ IsStr(text)
    /\ ~JsonLoads(text).ok
    /\ ~(LiteralEval(text).ok /\ IsList(LiteralEval(text).v))
    /\ \/ ~HasDictCall(Lex(text))
       \/ ~JsonLoads(PyText(RepairTokens(Lex(text)))).ok

\* C10: a text no strategy recovers a list from yields one error envelope
\* for the whole batch, no lookup and no send_command call.
C10_GarbageTextOneError ==
    (Done /\ Unrecoverable(input_data)) =>
        /\ ReturnedEnvelope
        /\ StatusOf(JsonLoads(ret).v) = PyStr("error")
        /\ sent = <<>> /\ lookups = 0

\* C10 witness: the batch returned for a Python tuple literal, which is
\* neither JSON nor a list.
C10_Witness ==
    /\ Done /\ Unrecoverable(input_data)
    /\ LiteralEval(input_data).ok

\* The batch is past its extraction: it runs its loop or has returned.
PastExtraction == tool = "batch" /\ pc # "call"

\* C11: a text that writes a list of commands in the keyword-call notation
\* is extracted to the candidates the JSON text of the same list is
\* extracted to: as many, with the same command names and parameters.
C11_KeywordCallAsJson ==
    \A l \in ListsOf(WellFormed) :
        (PastExtraction /\ l # <<>> /\ input_data = KeywordText(PyList(l))) =>
            /\ Extract(JsonDumps(PyList(l)), context) = Go(PyList(l))
            /\ processed_commands = l

\* The envelope that names the r-th required parameter of create_blueprint
\* as the one not given
BlueprintMissing(r) == MissingParamEnvelope(PyStr("create_blueprint"), r)

\* C12 as stated: the text of a create_blueprint command with a name and no
\* parent_class under "parameters" yields one validation-error envelope that
\* names parent_class, and no send_command call.
C12_ParametersTextNamesParentClass ==
    (Done /\ input_data = BlueprintText("parameters")) =>
        /\ ReturnedList
        /\ JsonLoads(ret).v.items = <<BlueprintMissing(2)>>
        /\ sent = <<>>

\* C12 amended: that text yields one validation-error envelope and no
\* send_command call, and the envelope names name as the missing parameter,
\* the key "parameters" not being read; it names parent_class when the
\* parameters are under the key "params".
C12_ParametersTextNamesName ==
    /\ (Done /\ input_data = BlueprintText("parameters")) =>
           /\ ReturnedList
           /\ JsonLoads(ret).v.items = <<BlueprintMissing(1)>>
           /\ sent = <<>> /\ lookups = 0
    /\ (Done /\ input_data = BlueprintText("params")) =>
           /\ ReturnedList
           /\ JsonLoads(ret).v.items = <<BlueprintMissing(2)>>
           /\ sent = <<>> /\ lookups = 0

\* C12 witness: the batch returned its one envelope for the text with the
\* key "parameters".
C12_Witness ==
    /\ Done /\ input_data = BlueprintText("parameters")
    /\ Len(results) = 1 /\ StatusOf(results[1]) = PyStr("error")

\* execute_mcp_command returned after send_command returned result
CmdReturnedAfter(result) ==
    /\ tool = "single" /\ pc = "done"
    /\ Replied = <<Returns(result)>>
\* A value as it reads once json has encoded and decoded it
AsJson(v) == JsonLoads(JsonDumps(v)).v
RawResults == {reply.v : reply \in {r \in Replies : ~r.raised}}

CmdDone == tool = "single" /\ pc = "done"

\* What the call hands back when it ends at outcome, a step of the
\* validation
Handed(outcome) == IF outcome.kind = "return" THEN outcome.v ELSE Raised(outcome.v.s)

\* The call that is over validated params and, where it called
\* send_command, passed params to it.
RanWith(params) ==
    /\ \A k \in 1..Len(sent) : sent[k].params = params
    /\ IF lookups = 0
       THEN /\ ValidateParams(command, Go(params)).kind # "go"
            /\ ret = Handed(ValidateParams(command, Go(params)))
       ELSE ValidateParams(command, Go(params)).kind = "go"

\* C14: the parameters are normalized before the validation and the call: a
\* mapping is used as it is, a JSON string is decoded, a string json cannot
\* decode gives an error envelope and no send_command call, and an empty or
\* absent value is the empty mapping.
C14_ParamsNormalized ==
    CmdDone =>
        /\ IsDict(params_json) => RanWith(params_json)
        /\ (IsStr(params_json) /\ ~IsBlank(params_json) /\ JsonLoads(params_json).ok) =>
               RanWith(JsonLoads(params_json).v)
        /\ (IsStr(params_json) /\ ~IsBlank(params_json) /\ ~JsonLoads(params_json).ok) =>
               /\ ReturnedEnvelope
               /\ StatusOf(JsonLoads(ret).v) = PyStr("error")
               /\ sent = <<>> /\ lookups = 0
        /\ (params_json = PyNone \/ (IsStr(params_json) /\ IsBlank(params_json))) =>
               RanWith(PyDict(<<>>))

\* C14 witness: a call with a string json cannot decode is over.
C14_Witness ==
    /\ CmdDone /\ IsStr(params_json) /\ ~IsBlank(params_json)
    /\ ~JsonLoads(params_json).ok /\ ReturnedEnvelope

\* A call with the JSON string of a mapping is over, send_command having
\* received the mapping.
DecodedParamsSent ==
    /\ CmdDone /\ IsStr(params_json) /\ JsonLoads(params_json).ok
    /\ sent # <<>> /\ sent[1].params = JsonLoads(params_json).v
    /\ IsDict(sent[1].params) /\ sent[1].params # PyDict(<<>>)

\* The required keys of each command kind of the table, none for a kind
\* outside it
RequiredKeys(kind) ==
    CASE kind = PyStr("create_blueprint") -> <<"name", "parent_class">>
      [] kind = PyStr("spawn_actor") -> <<"name", "type">>
      [] kind = PyStr("add_component_to_blueprint") ->
            <<"blueprint_name", "component_type", "component_name">>
      [] OTHER -> <<>>

\* The key is absent from the mapping or has a falsy value in it
Unsatisfied(params, key) == ~DictHas(params, key) \/ ~Truthy(DictGet(params, key))

\* The call is over and its parameters were normalized to a mapping.
CmdDoneWithMapping ==
    /\ CmdDone
    /\ ParseParams(params_json).kind = "go"
    /\ IsDict(ParseParams(params_json).v)

\* C15: the validation turns a command down exactly when its kind is in the
\* table and a required key is absent or falsy, naming the first such key;
\* a command of a kind outside the table is never turned down, whatever its
\* parameters, and goes on to the lookup and to send_command.
C15_ValidationIffRequiredUnsatisfied ==
    /\ CmdDoneWithMapping =>
           /\ lookups = 0 <=>
                  \E r \in 1..Len(RequiredKeys(command)) :
                      Unsatisfied(ParseParams(params_json).v, RequiredKeys(command)[r])
           /\ lookups = 0 =>
                  \E r \in 1..Len(RequiredKeys(command)) :
                      /\ Unsatisfied(ParseParams(params_json).v, RequiredKeys(command)[r])
                      /\ \A q \in 1..(r - 1) :
                             ~Unsatisfied(ParseParams(params_json).v,
                                          RequiredKeys(command)[q])
                      /\ ret = JsonDumps(MissingParamEnvelope(command, r))
                      /\ RequiredParams(command)[r][1] = RequiredKeys(command)[r]
    /\ (CmdDone /\ RequiredKeys(command) = <<>>
           /\ ParseParams(params_json).kind = "go") =>
           /\ lookups = 1
           /\ ret.t # "raised"
           /\ \/ sent = <<[idx |-> 0, command |-> command,
                            params |-> ParseParams(params_json).v]>>
              \/ sent = <<>> /\ script = <<NoConn>> /\ ret = NoConnection

\* C15 witness: spawn_actor was turned down for a name that is there with
\* an empty value.
C15_Witness ==
    /\ CmdDoneWithMapping /\ command = PyStr("spawn_actor")
    /\ DictHas(ParseParams(params_json).v, "name")
    /\ DictHas(ParseParams(params_json).v, "type")
    /\ lookups = 0 /\ ReturnedEnvelope

\* A command outside the table went to send_command with parameters that
\* are no mapping.
UnlistedSentAsGiven ==
    /\ CmdDone /\ RequiredKeys(command) = <<>>
    /\ sent # <<>> /\ IsList(sent[1].params)

\* The JSON text of a sequence of mappings, or of one mapping with a status
StructuredResult(text) ==
    /\ IsStr(text)
    /\ JsonLoads(text).ok
    /\ \/ /\ IsList(JsonLoads(text).v)
          /\ \A n \in 1..Len(JsonLoads(text).v.items) :
                 IsDict(JsonLoads(text).v.items[n])
       \/ /\ IsDict(JsonLoads(text).v)
          /\ DictHas(JsonLoads(text).v, "status")

\* C16: whatever the input, execute_mcp_command_batch returns the JSON text
\* of a sequence of envelopes or of one envelope with a status, never a
\* plain error text.
C16_AlwaysStructuredResult == Done => StructuredResult(ret)

\* A mapping with a command key and none of the wrapper keys
CommandMapping(v) ==
    /\ IsDict(v) /\ DictHas(v, "command")
    /\ \A k \in 1..Len(WrapperKeys) : ~DictHas(v, WrapperKeys[k])

\* C17: a mapping with a command key and no wrapper key is run as the one
\* candidate of a sequence, with a params key or without: the batch returns
\* a list of exactly one envelope, the one of that command.
C17_CommandMappingIsOneCandidate ==
    (Done /\ CommandMapping(input_data)) =>
        /\ processed_commands = <<input_data>>
        /\ ReturnedList
        /\ Len(JsonLoads(ret).v.items) = 1

\* The batch, past its extraction, holds the candidates the extraction of
\* other gives, or none where that extraction gives no list to run.
ExtractedAs(other) ==
    IF Extract(other, context).kind = "go"
    THEN processed_commands = Extract(other, context).v.items
    ELSE processed_commands = <<>>

\* C18: a text that json decodes to a mapping is extracted as the mapping
\* itself is: both give no candidates to run, or both the same candidates.
C18_MappingTextAsNativeMapping ==
    (/\ PastExtraction
     /\ IsStr(input_data)
     /\ JsonLoads(input_data).ok
     /\ IsDict(JsonLoads(input_data).v)) =>
        ExtractedAs(JsonLoads(input_data).v)

\* A mapping whose one key is a wrapper key that holds text
HoldsText(v) ==
    /\ IsDict(v) /\ Len(v.items) = 2
    /\ \E k \in 1..Len(WrapperKeys) : v.items[1] = PyStr(WrapperKeys[k])
    /\ IsStr(v.items[2])

\* C19 as stated: the text a mapping holds under a wrapper key is extracted
\* as that text is when it is the input itself.
C19_HeldTextAsTextInput ==
    (PastExtraction /\ HoldsText(input_data)) => ExtractedAs(input_data.items[2])

\* C19 amended: the text a mapping holds under a wrapper key is decoded as
\* JSON and no more: where it decodes to a list the candidates are those of
\* the text as input; where it decodes to anything else, one command
\* included, or is no JSON, no candidate is extracted and no command runs.
C19_HeldTextDecodedAsJsonList ==
    (PastExtraction /\ HoldsText(input_data)) =>
        IF JsonLoads(input_data.items[2]).ok /\ IsList(JsonLoads(input_data.items[2]).v)
        THEN ExtractedAs(input_data.items[2])
        ELSE /\ processed_commands = <<>>
             /\ pc = "done" /\ ~JsonLoads(ret).ok
             /\ sent = <<>> /\ lookups = 0

\* C19 witness: the batch returned for a mapping that holds the JSON text of
\* one command, which as input is run.
C19_Witness ==
    /\ Done /\ HoldsText(input_data)
    /\ JsonLoads(input_data.items[2]).ok /\ IsDict(JsonLoads(input_data.items[2]).v)
    /\ Extract(input_data.items[2], context).kind = "go"

\* The batch runs the list a mapping holds as JSON text.
HeldJsonListRuns ==
    /\ PastExtraction /\ HoldsText(input_data)
    /\ processed_commands # <<>> /\ sent # <<>>

\* A str element that is a command name
NameElement(c) == IsStr(c) /\ c # PyStr("")
\* An element the loop flags: a mapping whose command is no non-empty str,
\* an empty str, a value of any other type
InvalidElement(c) ==
    \/ IsDict(c) /\ ~(IsStr(DictGetDefault(c, "command", PyNone))
                       /\ DictGetDefault(c, "command", PyNone) # PyStr(""))
    \/ c = PyStr("")
    \/ ~IsDict(c) /\ ~IsStr(c)

\* C20: each element of the candidate list gets exactly one result, at its
\* own index: a non-empty str is run as the command of that name with empty
\* parameters; an element that is no command gets an error envelope with
\* its index and no send_command call; the elements after it are processed.
C20_EachElementOneResultInPlace ==
    (tool = "batch" /\ pc # "call") =>
        /\ Len(results) <= Len(processed_commands)
        /\ Done /\ processed_commands # <<>> => Len(results) = Len(processed_commands)
        /\ origin = [n \in 1..Len(results) |-> n]
        /\ \A n \in 1..Len(results) :
               /\ Cardinality(CallsFor(n)) <= 1
               /\ NameElement(processed_commands[n]) =>
                      /\ \A k \in CallsFor(n) :
                             /\ sent[k].command = processed_commands[n]
                             /\ sent[k].params = PyDict(<<>>)
                      /\ CallsFor(n) = {} =>
                             \/ results[n] = ConnectionErrorEnvelope
                             \/ /\ RequiredKeys(processed_commands[n]) # <<>>
                                /\ results[n] = MissingParamEnvelope(processed_commands[n], 1)
               /\ InvalidElement(processed_commands[n]) =>
                      /\ StatusOf(results[n]) = PyStr("error")
                      /\ DictGetDefault(results[n], "index", PyNone) = PyInt(ToString(n - 1))
                      /\ CallsFor(n) = {}

\* C20 witness: an empty str was flagged at the first index and the command
\* name after it was sent.
C20_Witness ==
    /\ Done /\ Len(processed_commands) = 2
    /\ processed_commands[1] = PyStr("")
    /\ NameElement(processed_commands[2]) /\ CallsFor(2) # {}

\* The required keys of the command that the parameters do not satisfy
MissingKeys ==
    {r \in 1..Len(RequiredKeys(command)) :
        Unsatisfied(ParseParams(params_json).v, RequiredKeys(command)[r])}

\* The call was turned down by the validation of a mapping.
ValidationFailed == CmdDoneWithMapping /\ lookups = 0

\* C21 as stated: the envelope of a validation failure identifies every
\* required key that is absent or empty.
C21_NamesEveryMissingKey ==
    ValidationFailed =>
        /\ ReturnedEnvelope
        /\ \A r \in MissingKeys : JsonLoads(ret).v = MissingParamEnvelope(command, r)

\* C21 amended: the envelope of a validation failure identifies one
\* required key only, the first in the order of the table that is absent
\* or empty; it has the fields status and error and no list of keys.
C21_NamesFirstMissingKeyOnly ==
    ValidationFailed =>
        /\ ReturnedEnvelope
        /\ MissingKeys # {}
        /\ \A r \in MissingKeys :
               (\A q \in MissingKeys : r <= q) <=>
                   JsonLoads(ret).v = MissingParamEnvelope(command, r)
        /\ Len(JsonLoads(ret).v.items) = 4
        /\ DictHas(JsonLoads(ret).v, "status") /\ DictHas(JsonLoads(ret).v, "error")

\* C21 witness: a call was turned down with two required keys missing.
C21_Witness == ValidationFailed /\ Cardinality(MissingKeys) >= 2

\* A value that is a list or a text that is the JSON of a list, and the
\* list it stands for
StandsForList(v) ==
    \/ IsList(v)
    \/ IsStr(v) /\ JsonLoads(v).ok /\ IsList(JsonLoads(v).v)
ListStoodFor(v) == IF IsList(v) THEN v ELSE JsonLoads(v).v

\* The k-th wrapper key is the first, in the fixed order, under which the
\* mapping holds a list
FirstListKey(v, k) ==
    /\ DictHas(v, WrapperKeys[k]) /\ StandsForList(DictGet(v, WrapperKeys[k]))
    /\ \A j \in 1..(k - 1) :
           ~(DictHas(v, WrapperKeys[j]) /\ StandsForList(DictGet(v, WrapperKeys[j])))

\* C22: for a mapping the wrapper keys are examined in the order
\* commands_list, commands, command_list, batch, input, data, and the
\* candidates are the list under the first key that holds a list or the
\* JSON text of one; a key that holds neither is passed over and the keys
\* after the match are not used.
C22_FirstWrapperKeyInOrder ==
    /\ WrapperKeys = <<"commands_list", "commands", "command_list", "batch", "input", "data">>
    /\ \A k \in 1..Len(WrapperKeys) :
           (PastExtraction /\ IsDict(input_data) /\ FirstListKey(input_data, k)) =>
               processed_commands = ListStoodFor(DictGet(input_data, WrapperKeys[k])).items

\* C22 witness: the batch runs the list under batch, the mapping holding no
\* list under three keys before it and another list under input after it.
C22_Witness ==
    /\ PastExtraction /\ IsDict(input_data) /\ FirstListKey(input_data, 4)
    /\ DictHas(input_data, "commands_list") /\ DictHas(input_data, "commands")
    /\ DictHas(input_data, "input") /\ IsList(DictGet(input_data, "input"))
    /\ processed_commands = DictGet(input_data, "batch").items
    /\ processed_commands # DictGet(input_data, "input").items

\* C23: the JSON text of a one-element list whose element wraps the list L
\* under commands_list, commands, command_list, input or data is unwrapped:
\* the candidates run are the elements of L.
C23_NestedWrapperUnwrapped ==
    \A key \in NestedKeys :
        \A l \in ListsOf(WellFormed) :
            (PastExtraction /\ l # <<>> /\ input_data = NestedText(key, PyList(l))) =>
                processed_commands = l

\* A text that is no JSON and that ast.literal_eval reads as a list
LiteralListText(text) ==
    /\ IsStr(text)
    /\ ~JsonLoads(text).ok
    /\ LiteralEval(text).ok /\ IsList(LiteralEval(text).v)
\* A list all of whose elements are mappings with a command key
AllCommandMappings(v) ==
    \A n \in 1..Len(v.items) : IsDict(v.items[n]) /\ DictHas(v.items[n], "command")

\* C24 as stated: a list recovered by literal evaluation is the candidate
\* list only if every element is a mapping with a command key; a literal
\* list with any other element is never used.
C24_LiteralListOnlyOfCommands ==
    (PastExtraction /\ LiteralListText(input_data)
        /\ ~AllCommandMappings(LiteralEval(input_data).v)) =>
        /\ processed_commands = <<>>
        /\ sent = <<>>

\* C24 amended: the first literal evaluation takes the list only if every
\* element is a mapping with a command key, but the last one takes any
\* list: a literal list is the candidate list whatever its elements, and
\* those that are no command are flagged one by one in the loop.
C24_LiteralListAlwaysUsed ==
    (PastExtraction /\ LiteralListText(input_data)) =>
        /\ processed_commands = LiteralEval(input_data).v.items
        /\ \A n \in 1..Len(results) :
               InvalidElement(processed_commands[n]) =>
                   StatusOf(results[n]) = PyStr("error") /\ CallsFor(n) = {}

\* C24 witness: the batch returned for a literal list of a command name and
\* None, the name having been sent.
C24_Witness ==
    /\ Done /\ LiteralListText(input_data)
    /\ ~AllCommandMappings(LiteralEval(input_data).v)
    /\ Len(results) = 2 /\ CallsFor(1) # {}

\* C25: called with no input and with no output of an earlier task to
\* recover, the batch returns the empty result sequence [], neither a
\* warning nor an error, and makes no lookup and no send_command call.
C25_NoInputEmptyResults ==
    (Done /\ input_data = PyNone /\ context = PyNone) =>
        /\ JsonLoads(ret) = [ok |-> TRUE, v |-> PyList(<<>>)]
        /\ results = <<>> /\ processed_commands = <<>>
        /\ lookups = 0 /\ sent = <<>>

\* C25 witness: the batch returned for no input and no context.
C25_Witness ==
    /\ Done /\ input_data = PyNone /\ context = PyNone
    /\ ret = JsonDumps(PyList(<<>>))

\* Called with no input, the batch ran the output recovered from the
\* context.
ContextRecovered ==
    /\ Done /\ input_data = PyNone /\ context # PyNone
    /\ sent # <<>>

\* A mapping with a non-empty str command and a params that is no mapping
ParamsNotMapping(c) ==
    /\ IsDict(c) /\ DictHas(c, "command") /\ DictHas(c, "params")
    /\ IsStr(DictGet(c, "command")) /\ DictGet(c, "command") # PyStr("")
    /\ ~IsDict(DictGet(c, "params"))

\* C26: a candidate with a valid command and a params that is no mapping is
\* not turned down for it: it is run with the empty mapping, so that a
\* command outside the table goes to send_command with no parameters and a
\* command of the table gets the validation error of its first required
\* key.
C26_NonMappingParamsRunEmpty ==
    (tool = "batch" /\ pc # "call") =>
        \A n \in 1..Len(results) :
            ParamsNotMapping(processed_commands[n]) =>
                /\ origin[n] = n
                /\ \A k \in CallsFor(n) :
                       /\ sent[k].command = DictGet(processed_commands[n], "command")
                       /\ sent[k].params = PyDict(<<>>)
                /\ IF RequiredKeys(DictGet(processed_commands[n], "command")) = <<>>
                   THEN \/ Cardinality(CallsFor(n)) = 1
                        \/ CallsFor(n) = {} /\ results[n] = ConnectionErrorEnvelope
                   ELSE /\ CallsFor(n) = {}
                        /\ results[n] =
                               MissingParamEnvelope(DictGet(processed_commands[n], "command"), 1)

\* C26 witness: a command of the table with a number for params got its
\* validation error, and a command outside the table with a list for
\* params was sent.
C26_Witness ==
    /\ Done /\ Len(results) = 2
    /\ ParamsNotMapping(processed_commands[1])
    /\ RequiredKeys(DictGet(processed_commands[1], "command")) # <<>>
    /\ ParamsNotMapping(processed_commands[2])
    /\ IsList(DictGet(processed_commands[2], "params"))
    /\ CallsFor(2) # {}

\* The bridge answered a request of the endpoint last.
ServedBy(endpoint) == tool = "bridge" /\ served.endpoint = endpoint

\* What the patterns find in the text: the matches of the first pattern in
\* text order, then those of the second, then that of the third
PatternCandidates(text) ==
    FencedMatches(Lex(text), 1) \o NestedMatches(Lex(text), 1) \o GreedyMatches(Lex(text))

\* The candidates that parse as a JSON object with a command key, by place
Qualifying(cands) ==
    {n \in 1..Len(cands) :
        /\ JsonLoads(PyText(cands[n])).ok
        /\ IsDict(JsonLoads(PyText(cands[n])).v)
        /\ DictHas(JsonLoads(PyText(cands[n])).v, "command")}

\* The command object of the first qualifying candidate
FirstQualifying(cands) == JsonLoads(PyText(cands[Least(Qualifying(cands))])).v

\* C27: a request of process_natural_language sends at most one command,
\* and the one it sends is the first candidate (patterns in their order,
\* matches in text order) that parses as a JSON object with a command key;
\* with no such candidate the answer has status error, nothing is sent and
\* message_history is as it was.
C27_FirstCandidateOnly ==
    ServedBy("process_natural_language") =>
        /\ Len(served.calls) <= 1
        /\ served.text = PyNone => served.calls = <<>>
        /\ (served.text # PyNone /\ Qualifying(PatternCandidates(served.text)) # {}) =>
              /\ \A k \in 1..Len(served.calls) :
                    /\ served.calls[k].command =
                          DictGet(FirstQualifying(PatternCandidates(served.text)), "command")
                    /\ served.calls[k].parameters =
                          DictGetDefault(FirstQualifying(PatternCandidates(served.text)),
                                         "parameters", PyDict(<<>>))
              /\ served.status = 200 => Len(served.calls) = 1
        /\ (served.text # PyNone /\ Qualifying(PatternCandidates(served.text)) = {}) =>
              /\ served.status = 200
              /\ DictGet(served.body, "status") = PyStr("error")
              /\ served.calls = <<>>
              /\ message_history = served.history

\* C27 witness: the text holds a command and, after it, another one in a
\* code block; the one of the code block was sent, and only that one.
C27_Witness ==
    /\ ServedBy("process_natural_language") /\ served.status = 200
    /\ served.text # PyNone
    /\ Len(FencedMatches(Lex(served.text), 1)) = 1
    /\ Len(NestedMatches(Lex(served.text), 1)) = 2
    /\ Qualifying(NestedMatches(Lex(served.text), 1)) = {1, 2}
    /\ served.calls = <<Call(PyStr("get_actors_in_level"), PyDict(<<>>))>>
    /\ FirstQualifying(NestedMatches(Lex(served.text), 1)) = GenCreateActor

\* The answer with status error for a text without a command was given.
NoCandidateAnswered ==
    /\ ServedBy("process_natural_language") /\ served.text # PyNone
    /\ Qualifying(PatternCandidates(served.text)) = {}
    /\ PatternCandidates(served.text) # <<>>
    /\ served.history # <<>>

\* C28: every entry of message_history with source client is followed at
\* once by an entry with source unreal: no command is recorded without its
\* response.
C28_CommandFollowedByResponse ==
    tool = "bridge" =>
        \A n \in 1..Len(message_history) :
            message_history[n].source = "client" =>
                /\ n < Len(message_history)
                /\ message_history[n + 1].source = "unreal"

\* The entries with source client that send_command recorded have their
\* response: the last request was a direct command that got its answer.
DirectCommandRecorded ==
    /\ ServedBy("send_command") /\ served.status = 200
    /\ Len(message_history) = Len(served.history) + 2
    /\ message_history[Len(message_history) - 1].source = "client"
    /\ message_history[Len(message_history)] = Entry("unreal", served.body)

\* The last entries of a history, at most count of them
LastOf(history, count) ==
    IF Len(history) <= count THEN history
    ELSE [n \in 1..count |-> history[Len(history) - count + n]]

\* C29: get_status asks the connection and Ollama again only when more
\* than STATUS_CHECK_INTERVAL seconds passed since last_status_check;
\* otherwise mcp_connected, ollama_available and timestamp are those of the
\* cache and last_status_check stays.  Either way the message_history it
\* returns is the last 20 entries of message_history.
C29_RefreshOnlyAfterInterval ==
    ServedBy("get_status") =>
        /\ served.queried <=> (served.at - served.last > 60)
        /\ ~served.queried =>
              /\ cached_status.mcp_connected = served.cache.mcp_connected
              /\ cached_status.ollama_available = served.cache.ollama_available
              /\ cached_status.timestamp = served.cache.timestamp
              /\ last_status_check = served.last
        /\ cached_status.message_history = LastOf(message_history, 20)

\* C29 witness: get_status was called exactly STATUS_CHECK_INTERVAL seconds
\* after a refresh, with more than 20 entries in the history, and answered
\* from the cache.
C29_Witness ==
    /\ ServedBy("get_status") /\ ~served.queried
    /\ served.last > 0
    /\ served.at - served.last = 60
    /\ Len(message_history) > 20
    /\ Len(served.cache.message_history) < 20

\* get_status refreshed a second time, after the interval.
RefreshedAgain ==
    /\ ServedBy("get_status") /\ served.queried
    /\ served.last > 0
    /\ cached_status.timestamp = served.at /\ last_status_check = served.at

\* C30: when there is no connected Unreal connection, send_command and
\* process_natural_language fail with HTTP status 400, and they never call
\* the connection's send_command.
C30_NoConnectionIs400 ==
    (/\ tool = "bridge"
     /\ served.endpoint \in {"send_command", "process_natural_language"}
     /\ served.conn \in {"none", "closed"}) =>
        /\ served.status = 400
        /\ served.calls = <<>>

\* Without a connection send_command is never called.
NoConnectionNothingSent ==
    (/\ tool = "bridge"
     /\ served.endpoint \in {"send_command", "process_natural_language"}
     /\ served.conn \in {"none", "closed"}) => served.calls = <<>>

====
